---- MODULE Spec2Model ----
(***************************************************************************)
(* Model of dx's interactive REPL (src/repl.ts): the live code buffer, the *)
(* executed-buffer history and its pointer, the command dispatcher of the  *)
(* prompt loop, the SIGINT listener and the calls the loop awaits.         *)
(*                                                                         *)
(* Text is modelled as a sequence of one-character strings, so trimming,   *)
(* the command pattern and parseInt are computed as the code computes them.*)
(***************************************************************************)
EXTENDS Integers, Sequences, FiniteSets, TLC

(***************************************************************************)
(* Characters and text                                                     *)
(***************************************************************************)

\* \s of the command pattern and of String.prototype.trim
Whitespace == {" ", "\t"}

Digits == {"0", "1", "2", "3", "4", "5", "6", "7", "8", "9"}

\* \w of the command pattern: [A-Za-z0-9_] (the letters the inputs use)
WordChars ==
    Digits \cup {"_"} \cup
    {"a", "b", "c", "d", "e", "f", "g", "h", "i", "j", "k", "l", "m", "n", "o",
     "p", "q", "r", "s", "t", "u", "v", "w", "x", "y", "z"}

DigitVal(c) ==
    CASE c = "0" -> 0 [] c = "1" -> 1 [] c = "2" -> 2 [] c = "3" -> 3
      [] c = "4" -> 4 [] c = "5" -> 5 [] c = "6" -> 6 [] c = "7" -> 7
      [] c = "8" -> 8 [] c = "9" -> 9

RECURSIVE TrimStart(_)
TrimStart(s) ==
    IF s # <<>> /\ Head(s) \in Whitespace THEN TrimStart(Tail(s)) ELSE s

RECURSIVE TrimEnd(_)
TrimEnd(s) ==
    IF s # <<>> /\ s[Len(s)] \in Whitespace
    THEN TrimEnd(SubSeq(s, 1, Len(s) - 1))
    ELSE s

\* String.prototype.trim
Trim(s) == TrimEnd(TrimStart(s))

\* length of the longest prefix of s made of characters of cs
RECURSIVE PrefixLen(_, _)
PrefixLen(s, cs) ==
    IF s # <<>> /\ Head(s) \in cs THEN 1 + PrefixLen(Tail(s), cs) ELSE 0

\* Array.prototype.join("\n")
RECURSIVE JoinLines(_)
JoinLines(lines) ==
    IF lines = <<>> THEN <<>>
    ELSE IF Len(lines) = 1 THEN lines[1]
    ELSE lines[1] \o <<"\n">> \o JoinLines(Tail(lines))

(***************************************************************************)
(* The command pattern of the loop: a dot, one or more word characters     *)
(* (group 1), then optionally whitespace and the rest of the text          *)
(* (group 2). The name is greedy and must be followed by the end of the    *)
(* text or by whitespace; the whitespace run is taken whole.               *)
(***************************************************************************)
NameLen(t) == PrefixLen(Tail(t), WordChars)

CommandMatches(t) ==
    /\ t # <<>>
    /\ Head(t) = "."
    /\ NameLen(t) >= 1
    /\ \/ Len(t) = 1 + NameLen(t)
       \/ Len(t) > 1 + NameLen(t) /\ t[2 + NameLen(t)] \in Whitespace

\* capture group 1
CmdName(t) == SubSeq(t, 2, 1 + NameLen(t))

\* the optional group took part in the match
HasArgs(t) == Len(t) > 1 + NameLen(t)

\* capture group 2, as handed to the handler: args?.trim()
CmdArgs(t) ==
    Trim(TrimStart(SubSeq(t, 2 + NameLen(t), Len(t))))

(***************************************************************************)
(* parseInt(text, 10): leading whitespace, an optional sign, then the      *)
(* longest run of digits; NaN when there is no digit.                      *)
(***************************************************************************)
NaN == [nan |-> TRUE, val |-> 0]

RECURSIVE DigitsValue(_, _)
DigitsValue(s, acc) ==
    IF s = <<>> THEN acc ELSE DigitsValue(Tail(s), 10 * acc + DigitVal(Head(s)))

ParseInt(text) ==
    LET s    == TrimStart(text)
        neg  == s # <<>> /\ Head(s) = "-"
        body == IF s # <<>> /\ Head(s) \in {"-", "+"} THEN Tail(s) ELSE s
        n    == PrefixLen(body, Digits)
        v    == DigitsValue(SubSeq(body, 1, n), 0)
    IN  IF n = 0 THEN NaN
        ELSE [nan |-> FALSE, val |-> IF neg THEN 0 - v ELSE v]

(***************************************************************************)
(* The handler table `commands` (keys without their leading dot)           *)
(***************************************************************************)
N_exit == <<"e", "x", "i", "t">>
N_help == <<"h", "e", "l", "p">>
N_run == <<"r", "u", "n">>
N_do == <<"d", "o">>
N_clear == <<"c", "l", "e", "a", "r">>
N_context == <<"c", "o", "n", "t", "e", "x", "t">>
N_bclear == <<"b", "c", "l", "e", "a", "r">>
N_bc == <<"b", "c">>
N_bshow == <<"b", "s", "h", "o", "w">>
N_bs == <<"b", "s">>
N_bhprev == <<"b", "h", "p", "r", "e", "v">>
N_hp == <<"h", "p">>
N_bhnext == <<"b", "h", "n", "e", "x", "t">>
N_hn == <<"h", "n">>
N_bhlist == <<"b", "h", "l", "i", "s", "t">>
N_bhload == <<"b", "h", "l", "o", "a", "d">>
N_bhclear == <<"b", "h", "c", "l", "e", "a", "r">>
N_import == <<"i", "m", "p", "o", "r", "t">>

CommandNames ==
    {N_exit, N_help, N_run, N_do, N_clear, N_context, N_bclear, N_bc, N_bshow,
     N_bs, N_bhprev, N_hp, N_bhnext, N_hn, N_bhlist, N_bhload, N_bhclear,
     N_import}

\* the text of a command line: the dot, the name and, if any, its arguments
Dot(name) == <<".">> \o name
DotArgs(name, arguments) == <<".">> \o name \o <<" ">> \o arguments

(***************************************************************************)
(* Bounds and the inputs drawn at the prompt                               *)
(***************************************************************************)

\* most executed buffers the user lets the history hold in Spec
MaxHistLen == 2

\* in SpecCap the user varies the first MaxVaried buffers executed
MaxVaried == 3

\* `executedBufferHistory.length > 100`
HistoryCapacity == 100

La == <<"a">>
Lb == <<" ", "b">>

\* the programs the user types, line by line; two of them hold a line the
\* loop does not take as code, a command line and a blank one
Programs == {<<La, Lb>>, <<Lb>>, <<Lb, Dot(N_bshow)>>, <<Lb, <<" ">>>>}

CodeLines == {La, Lb}

BlankLines == {<<>>, <<" ">>}

\* arguments given to .bhload
BhloadArgs ==
    {<<"0">>, <<"1">>, <<"2">>, <<"3">>, <<"4">>, <<"-", "1">>, <<"x">>,
     <<"2", "x">>}

\* arguments given to .do
DoArgs == {<<"f">>}

\* what readTextFile finds in the file
FileContents == {<<>>, <<"\n">>, <<"a", "\n", "b">>}

N_foo == <<"f", "o", "o">>

\* arguments given to .import: one word, a name that is no identifier, a
\* specifier that is no URL, and a name with a URL after one blank or two
ImportArgs ==
    {<<"m">>,
     <<"1", " ", "h", "t", "t", "p", ":", "/", "/", "a">>,
     <<"m", " ", "b">>,
     <<"m", " ", "h", "t", "t", "p", ":", "/", "/", "a">>,
     <<"m", " ", " ", "h", "t", "t", "p", ":", "/", "/", "a">>}

CommandLines ==
    {Dot(n) : n \in CommandNames \cup {N_foo}}
    \cup {DotArgs(N_bhload, a) : a \in BhloadArgs}
    \cup {DotArgs(N_import, a) : a \in ImportArgs}
    \cup {DotArgs(N_do, a) : a \in DoArgs}
    \cup {DotArgs(N_run, La), <<" ">> \o Dot(N_hp) \o <<" ">>,
          DotArgs(N_foo, La)}

\* every line the prompt can return in the model
InputLines == CodeLines \cup BlankLines \cup CommandLines

IsPrefix(s, t) == Len(s) <= Len(t) /\ SubSeq(t, 1, Len(s)) = s

(***************************************************************************)
(* Module specifiers (src/module_map.ts)                                   *)
(***************************************************************************)

\* String.prototype.startsWith
StartsWith(s, prefix) == IsPrefix(prefix, s)

Letters == WordChars \ (Digits \cup {"_"})

\* the characters of a URL scheme after its first letter
SchemeChars == Letters \cup Digits \cup {"+", "-", "."}

\* the characters of the host names the inputs use
HostChars == Letters \cup Digits \cup {".", "-"}

Slashes == {"/", "\\"}

S_http == <<"h", "t", "t", "p">>
S_https == <<"h", "t", "t", "p", "s">>
S_ftp == <<"f", "t", "p">>
S_ws == <<"w", "s">>
S_wss == <<"w", "s", "s">>

\* the schemes whose URLs need a host
SpecialSchemes == {S_http, S_https, S_ftp, S_ws, S_wss}

\* t begins with a scheme: a letter, then scheme characters, then a colon
HasScheme(t) ==
    /\ t # <<>>
    /\ Head(t) \in Letters
    /\ Len(t) > PrefixLen(t, SchemeChars)
    /\ t[PrefixLen(t, SchemeChars) + 1] = ":"

SchemeOf(t) == SubSeq(t, 1, PrefixLen(t, SchemeChars))

AfterScheme(t) == SubSeq(t, PrefixLen(t, SchemeChars) + 2, Len(t))

\* `new URL(s)` without a base does not throw: surrounding spaces are
\* stripped, the text must begin with a scheme, and after a special scheme
\* (slashes skipped) there must be a host; any other scheme takes the rest
\* as it is
ParsesAsURL(s) ==
    LET t == Trim(s)
    IN  /\ HasScheme(t)
        /\ SchemeOf(t) \in SpecialSchemes =>
              LET r == AfterScheme(t)
                  h == SubSeq(r, PrefixLen(r, Slashes) + 1, Len(r))
                  n == PrefixLen(h, HostChars)
              IN  /\ n >= 1
                  /\ Len(h) > n => h[n + 1] \in {"/", "?", "#"}

S_std == <<"@", "s", "t", "d", "/">>
S_jsr == <<"j", "s", "r", ":">>
S_npm == <<"n", "p", "m", ":">>
S_constructor == <<"c", "o", "n", "s", "t", "r", "u", "c", "t", "o", "r">>

\* a property name every object inherits from Object.prototype
ObjectPrototypeKeys == {S_constructor}

Undefined == [kind |-> "undefined", text |-> <<>>]

\* activeImportMap.imports[specifier]: an own key gives its text, an
\* inherited property name gives a function, any other key gives undefined
ImportsLookup(map, specifier) ==
    IF specifier \in DOMAIN map.imports
    THEN [kind |-> "string", text |-> map.imports[specifier]]
    ELSE IF specifier \in ObjectPrototypeKeys
    THEN [kind |-> "function", text |-> <<>>]
    ELSE Undefined

\* the value is truthy: a function, or a text that is not empty
Truthy(v) == v.kind = "function" \/ (v.kind = "string" /\ v.text # <<>>)

\* `activeImportMap && activeImportMap.imports && activeImportMap.imports[specifier]`
MappedValue(map, specifier) ==
    IF map.present THEN ImportsLookup(map, specifier) ELSE Undefined

\* mutation of Replaced: the mapped value is looked up in the map again
Replaced_TwoLevels(specifier, map) ==
    LET once == IF Truthy(MappedValue(map, specifier))
                THEN MappedValue(map, specifier)
                ELSE [kind |-> "string", text |-> specifier]
    IN  IF once.kind = "string" /\ Truthy(MappedValue(map, once.text))
        THEN MappedValue(map, once.text)
        ELSE once

\* `specifier` after the import-map step: replaced once, or left as given
Replaced(specifier, map) ==
    IF Truthy(MappedValue(map, specifier))
    THEN MappedValue(map, specifier)
    ELSE [kind |-> "string", text |-> specifier]

\* mutation of Rewritten: the shorthand is tagged with the npm scheme
Rewritten_AsNpm(text) ==
    IF StartsWith(text, S_std) THEN S_npm \o text ELSE text

\* `specifier = "jsr:" + specifier` for the standard-library shorthand
Rewritten(text) ==
    IF StartsWith(text, S_std) THEN S_jsr \o text ELSE text

\* the promise of prepareSpecifierForImport is fulfilled with `value`
Resolved(value) ==
    [state |-> "resolved", value |-> value, message |-> <<"", <<>>, "">>]

\* it is rejected with the Error built from the template text, whose parts
\* are the text before the specifier, the specifier and the text after it
Unresolvable(originalSpecifier) ==
    [state |-> "rejected", value |-> <<>>,
     message |-> <<"Unable to resolve specifier: ", originalSpecifier,
                   ". It's not a valid URL, recognized scheme (jsr:, npm:), or a key in the provided import map resolving to one.">>]

\* it is rejected with the TypeError of calling startsWith on a value that
\* is not a string
NotAString ==
    [state |-> "rejected", value |-> <<>>,
     message |-> <<"specifier.startsWith is not a function", <<>>, "">>]

NotCalled == [state |-> "none", value |-> <<>>, message |-> <<"", <<>>, "">>]

\* mutation of PrepareSpecifierForImport: a specifier that is a URL is
\* returned before the import map is consulted
PrepareSpecifierForImport_UrlFirst(specifier, map) ==
    LET originalSpecifier == specifier
        replaced == Replaced(specifier, map)
    IN  IF ParsesAsURL(specifier)
        THEN Resolved(specifier)
        ELSE IF replaced.kind = "string" /\ ParsesAsURL(replaced.text)
        THEN Resolved(replaced.text)
        ELSE IF replaced.kind # "string"
        THEN NotAString
        ELSE IF StartsWith(Rewritten(replaced.text), S_jsr)
                \/ StartsWith(Rewritten(replaced.text), S_npm)
        THEN Resolved(Rewritten(replaced.text))
        ELSE Unresolvable(originalSpecifier)

\* prepareSpecifierForImport(specifier, activeImportMap)
PrepareSpecifierForImport(specifier, map) ==
    LET originalSpecifier == specifier
        replaced == Replaced(specifier, map)
    IN  IF replaced.kind = "string" /\ ParsesAsURL(replaced.text)
        THEN Resolved(replaced.text)
        ELSE IF replaced.kind # "string"
        THEN NotAString
        ELSE IF StartsWith(Rewritten(replaced.text), S_jsr)
                \/ StartsWith(Rewritten(replaced.text), S_npm)
        THEN Resolved(Rewritten(replaced.text))
        ELSE Unresolvable(originalSpecifier)

(***************************************************************************)
(* Module maps as objects (src/module_map.ts)                              *)
(***************************************************************************)

\* a module map with no entry
EmptyMap == [n \in {} |-> <<>>]

\* the keys every object literal and every JSON.parse result inherits and
\* the key whose assignment sets the prototype instead of an entry
S_proto == <<"_", "_", "p", "r", "o", "t", "o", "_", "_">>
InheritedKeys == ObjectPrototypeKeys \cup {S_proto}

\* `currentMap[name]` as a condition: an entry of its own, or a key inherited
\* from Object.prototype
HasTruthy(map, name) == name \in DOMAIN map \/ name \in InheritedKeys

\* `currentMap[entry.name] = { name: entry.name, url: resolvedSpecifier }`;
\* with the name __proto__ the assignment sets the prototype of the map and
\* adds no entry
WithEntry(map, name, url) ==
    IF name = S_proto THEN map
    ELSE [n \in (DOMAIN map) \cup {name} |->
             IF n = name THEN [name |-> name, url |-> url] ELSE map[n]]

\* `delete currentMap[moduleName]`
WithoutEntry(map, name) == [n \in (DOMAIN map) \ {name} |-> map[n]]

(***************************************************************************)
(* JSON text, as JSON.stringify(map, null, 2) writes it and JSON.parse      *)
(* reads it                                                                *)
(***************************************************************************)
Quote == "\""
Backslash == "\\"
JsonWhitespace == {" ", "\n", "\t", "\r"}
K_name == <<"n", "a", "m", "e">>
K_url == <<"u", "r", "l">>

\* the characters of a string between its quotes
RECURSIVE Escaped(_)
Escaped(t) ==
    IF t = <<>> THEN <<>>
    ELSE (IF Head(t) \in {Quote, Backslash} THEN <<Backslash, Head(t)>>
          ELSE IF Head(t) = "\n" THEN <<Backslash, "n">>
          ELSE <<Head(t)>>) \o Escaped(Tail(t))

Quoted(t) == <<Quote>> \o Escaped(t) \o <<Quote>>

Indent(n) == [i \in 1..n |-> " "]

\* one entry { name, url }, at the second level of indentation
StringifyEntry(e) ==
    <<"{", "\n">>
    \o Indent(4) \o Quoted(K_name) \o <<":", " ">> \o Quoted(e.name)
    \o <<",", "\n">>
    \o Indent(4) \o Quoted(K_url) \o <<":", " ">> \o Quoted(e.url)
    \o <<"\n">> \o Indent(2) \o <<"}">>

\* the keys of a map one after the other (parsing does not depend on the
\* order)
RECURSIVE KeySeq(_)
KeySeq(S) ==
    IF S = {} THEN <<>>
    ELSE LET k == CHOOSE x \in S : TRUE IN <<k>> \o KeySeq(S \ {k})

RECURSIVE StringifyMembers(_, _)
StringifyMembers(map, ks) ==
    Indent(2) \o Quoted(ks[1]) \o <<":", " ">> \o StringifyEntry(map[ks[1]])
    \o (IF Len(ks) = 1 THEN <<>>
        ELSE <<",", "\n">> \o StringifyMembers(map, Tail(ks)))

\* JSON.stringify(map, null, 2)
Stringify(map) ==
    IF DOMAIN map = {} THEN <<"{", "}">>
    ELSE <<"{", "\n">> \o StringifyMembers(map, KeySeq(DOMAIN map))
         \o <<"\n", "}">>

\* JSON values: strings, objects and null
JStr(t) == [kind |-> "str", text |-> t, fields |-> EmptyMap]
JObj(f) == [kind |-> "obj", text |-> <<>>, fields |-> f]
JNull == [kind |-> "null", text |-> <<>>, fields |-> EmptyMap]

\* results of the parser: the value read and the index after it
Parsed(v, n) == [ok |-> TRUE, val |-> v, next |-> n]
SyntaxError == [ok |-> FALSE, val |-> JNull, next |-> 0]

\* index of the first character at or after i that is no whitespace
SkipWs(t, i) ==
    IF i > Len(t) THEN i ELSE i + PrefixLen(SubSeq(t, i, Len(t)), JsonWhitespace)

\* the rest of a string whose opening quote is before index i (the inputs
\* hold no escape other than those read here)
RECURSIVE ParseChars(_, _, _)
ParseChars(t, i, acc) ==
    IF i > Len(t) THEN SyntaxError
    ELSE IF t[i] = Quote THEN Parsed(JStr(acc), i + 1)
    ELSE IF t[i] = Backslash
    THEN IF i + 1 > Len(t) THEN SyntaxError
         ELSE IF t[i + 1] \in {Quote, Backslash, "/"}
         THEN ParseChars(t, i + 2, Append(acc, t[i + 1]))
         ELSE IF t[i + 1] = "n" THEN ParseChars(t, i + 2, Append(acc, "\n"))
         ELSE SyntaxError
    ELSE IF t[i] \in {"\n", "\t", "\r"} THEN SyntaxError
    ELSE ParseChars(t, i + 1, Append(acc, t[i]))

RECURSIVE ParseValue(_, _)
RECURSIVE ParseMembers(_, _, _)

\* a value that starts at or after index i
ParseValue(t, i) ==
    LET j == SkipWs(t, i)
    IN  IF j > Len(t) THEN SyntaxError
        ELSE IF t[j] = Quote THEN ParseChars(t, j + 1, <<>>)
        ELSE IF t[j] = "{"
        THEN LET k == SkipWs(t, j + 1)
             IN  IF k <= Len(t) /\ t[k] = "}"
                 THEN Parsed(JObj(EmptyMap), k + 1)
                 ELSE ParseMembers(t, k, EmptyMap)
        ELSE IF j + 3 <= Len(t) /\ SubSeq(t, j, j + 3) = <<"n", "u", "l", "l">>
        THEN Parsed(JNull, j + 4)
        ELSE SyntaxError

\* the members of an object from the key at index i on; a key read twice
\* keeps its last value
ParseMembers(t, i, acc) ==
    IF i > Len(t) \/ t[i] # Quote THEN SyntaxError
    ELSE LET key == ParseChars(t, i + 1, <<>>)
         IN  IF ~key.ok THEN SyntaxError
             ELSE LET c == SkipWs(t, key.next)
                  IN  IF c > Len(t) \/ t[c] # ":" THEN SyntaxError
                      ELSE LET v == ParseValue(t, c + 1)
                           IN  IF ~v.ok THEN SyntaxError
                               ELSE LET fields ==
                                          [x \in DOMAIN acc \cup {key.val.text} |->
                                              IF x = key.val.text THEN v.val
                                              ELSE acc[x]]
                                        d == SkipWs(t, v.next)
                                    IN  IF d > Len(t) THEN SyntaxError
                                        ELSE IF t[d] = "}"
                                        THEN Parsed(JObj(fields), d + 1)
                                        ELSE IF t[d] = ","
                                        THEN ParseMembers(t, SkipWs(t, d + 1),
                                                          fields)
                                        ELSE SyntaxError

\* JSON.parse(text): the whole text is one value
JsonParse(t) ==
    LET v == ParseValue(t, 1)
    IN  IF v.ok /\ SkipWs(t, v.next) > Len(t) THEN v ELSE SyntaxError

(***************************************************************************)
(* The module map file (src/module_map.ts)                                 *)
(***************************************************************************)

\* the file does not exist
MissingFile == [kind |-> "missing", content |-> <<>>]

\* the directory of the file does not exist and cannot be made
NoConfigDir == [kind |-> "nodir", content |-> <<>>]

\* the file after writeTextFile(filePath, jsonString)
FileWith(content) == [kind |-> "file", content |-> content]
Stringified(map) == FileWith(Stringify(map))

\* what loadModuleMap returns: a module map, or the value null that
\* JSON.parse gives for the text null (`as ModuleMap` checks nothing);
\* `logged` says that the catch branch wrote "Error loading module map"
Loaded(map) == [kind |-> "map", map |-> map, logged |-> FALSE]
LoadedNull == [kind |-> "null", map |-> EmptyMap, logged |-> FALSE]
LoadFailed == [kind |-> "map", map |-> EmptyMap, logged |-> TRUE]
LoadThrew == [kind |-> "thrown", map |-> EmptyMap, logged |-> FALSE]

\* a parsed object as a module map: each member an entry { name, url }
AsModuleMap(v) ==
    [n \in DOMAIN v.fields |->
        [name |-> v.fields[n].fields[K_name].text,
         url |-> v.fields[n].fields[K_url].text]]

\* loadModuleMap on the file: ensureDirSync throws to the caller when the
\* directory cannot be made; a missing file and blank content give the
\* empty map, content that JSON.parse refuses is logged and gives the empty
\* map, and what JSON.parse returns is returned as it is
LoadModuleMap(file) ==
    IF file.kind = "nodir" THEN LoadThrew
    ELSE IF file.kind = "missing" THEN Loaded(EmptyMap)
    ELSE IF Trim(file.content) = <<>> THEN Loaded(EmptyMap)
    ELSE LET parsed == JsonParse(file.content)
         IN  IF ~parsed.ok THEN LoadFailed
             ELSE IF parsed.val.kind = "null" THEN LoadedNull
             ELSE Loaded(AsModuleMap(parsed.val))

\* what addModuleToMap and main write while the map is loaded
LoadNotices(loaded, name) ==
    (IF loaded.logged THEN {"Error loading module map"} ELSE {})
    \cup (IF loaded.kind = "map" /\ HasTruthy(loaded.map, name)
          THEN {"Module name already exists in the map. Overwriting."}
          ELSE {})

\* no call of loadModuleMap has returned yet
NotReturned == [kind |-> "none", map |-> EmptyMap, logged |-> FALSE]

\* `globalThis._imports = {}`
NoImports == [n \in {} |-> <<>>]

\* `_imports[name] = module`, the module being the one found at url
Bound(bindings, name, url) ==
    [n \in DOMAIN bindings \cup {name} |->
        IF n = name THEN url ELSE bindings[n]]

\* ttyPromptReader and ttyPromptWriter undefined, no handle open, close()
\* called on none
NoTty == [reader |-> "none", writer |-> "none", open |-> {}, closes |-> <<>>]

(***************************************************************************)
(* The inputs of main                                                      *)
(***************************************************************************)

\* most keys an import map holds
MaxMapEntries == 2

Sp_http == <<"h", "t", "t", "p", ":", "/", "/", "a">>
Sp_nohost == <<"h", "t", "t", "p", ":", "/", "/">>
Sp_npm == <<"n", "p", "m", ":", "z">>
Sp_jsr == <<"j", "s", "r", ":", "@", "s", "/", "p">>
Sp_std == <<"@", "s", "t", "d", "/", "f">>
Sp_scoped == <<"@", "s", "/", "p">>
Sp_bare == <<"b">>
Sp_other == <<"c">>
Sp_relative == <<".", "/", "m">>
Sp_noscheme == <<":", "/", "/", "x">>

\* the specifiers given on the command line
Specifiers ==
    {Sp_http, Sp_nohost, Sp_npm, Sp_jsr, Sp_std, Sp_scoped, Sp_bare, Sp_other,
     Sp_relative, Sp_noscheme, S_constructor}

\* the keys and the values of the import maps main can find
MapKeys == {Sp_bare, Sp_other, Sp_std, Sp_http}
MapValues == {Sp_other, Sp_npm, Sp_std, <<>>}

NoImportMap == [present |-> FALSE, imports |-> EmptyMap]

ImportMaps ==
    {NoImportMap} \cup
    {[present |-> TRUE, imports |-> f] :
        f \in UNION {[K -> MapValues] :
                        K \in {J \in SUBSET MapKeys :
                                  Cardinality(J) <= MaxMapEntries}}}

\* module names: Name_m is in the persisted map at the start, Name_n is not
Name_m == <<"m">>
Name_n == <<"n">>

\* what the module map file holds when main starts
ModuleMapFiles ==
    {MissingFile,
     NoConfigDir,
     FileWith(<<>>),
     FileWith(<<" ", "\n">>),
     FileWith(<<"{", " ", Quote, "m", Quote, ":", " ">>),
     FileWith(<<"n", "u", "l", "l">>),
     Stringified(EmptyMap),
     Stringified(WithEntry(EmptyMap, Name_m, Sp_npm)),
     Stringified(WithEntry(WithEntry(EmptyMap, Name_m, Sp_npm),
                           Name_n, Sp_http))}

\* the code given with -c
Codes == {<<" ">>, <<"a">>}

NoArgs ==
    [help |-> FALSE, code |-> <<>>, input |-> <<>>, command |-> "none",
     name |-> <<>>, specifier |-> <<>>]

\* the names given to `module add` and `module remove`
Names == {Name_m, Name_n, S_constructor, S_proto}

\* the command lines: --help, -c, -i, -c with -i, `module add <name>
\* <specifier>`, `module remove <name>`, `module list`, and none for the REPL
MainArgs ==
    {[NoArgs EXCEPT !.help = TRUE]}
    \cup {[NoArgs EXCEPT !.code = c] : c \in Codes}
    \cup {[NoArgs EXCEPT !.input = <<"f">>],
          [NoArgs EXCEPT !.code = <<"a">>, !.input = <<"f">>]}
    \cup {[NoArgs EXCEPT !.command = "add", !.name = n, !.specifier = s] :
             n \in Names, s \in Specifiers}
    \cup {[NoArgs EXCEPT !.command = "remove", !.name = n] : n \in Names}
    \cup {[NoArgs EXCEPT !.command = "list"]}
    \cup {NoArgs}

(***************************************************************************)
(* State                                                                   *)
(***************************************************************************)
VARIABLES
    codeBuffer,             \* the live buffer: a sequence of lines
    executedBufferHistory,  \* the executed buffers, oldest first
    bufferHistoryPointer,   \* -1, or a zero-based index into the history
    pc,                     \* where the loop is suspended
    line,                   \* what the last Input.prompt gave the loop
    notices,                \* messages written since that prompt returned
    evalCalls,              \* evaluator calls made since that prompt returned
    shifted,                \* what the last history shift() removed, if any
    exitCode,               \* <<>> while the process runs, <<n>> after Deno.exit(n)
    args,                   \* the parsed command line of main
    activeImportMap,        \* the import map main found, if any
    moduleMapFile,          \* the persisted module map file
    currentMap,             \* addModuleToMap's local copy of the map
    outcome,                \* how the last prepareSpecifierForImport settled
    returned,               \* what the last call of loadModuleMap returned
    imports,                \* globalThis._imports: name -> url of the module bound
    pendingOps,             \* the imports and file operations in flight
    tty                     \* the direct-terminal handles and who holds them

\* the state of main and of the module map, which the REPL loop leaves alone
mainVars == <<args, activeImportMap, moduleMapFile, currentMap, outcome>>

\* the session's bindings, its operations in flight and its terminal handles
ioVars == <<returned, imports, pendingOps, tty>>

vars ==
    <<codeBuffer, executedBufferHistory, bufferHistoryPointer, pc, line,
      notices, evalCalls, shifted, exitCode, args, activeImportMap,
      moduleMapFile, currentMap, outcome, returned, imports, pendingOps, tty>>

\* the pending call of evalCalls settles with `status`
Settle(calls, status) ==
    [i \in 1..Len(calls) |->
        IF calls[i].status = "pending"
        THEN [calls[i] EXCEPT !.status = status]
        ELSE calls[i]]

\* the prompt returns the text l
Read(l) ==
    /\ pc = "prompt"
    /\ line' = [kind |-> "line", text |-> l]

\* the loop's dispatch: the trimmed line is a command line naming handler n
Dispatches(l, n) ==
    /\ Trim(l) # <<>>
    /\ CommandMatches(Trim(l))
    /\ CmdName(Trim(l)) = n

\* the input lines the loop hands to each branch of its dispatch
LinesOf(n) == {l \in InputLines : Dispatches(l, n)}
BlankInputs == {l \in InputLines : Trim(l) = <<>>}
RunLines == LinesOf(N_run)
DoLines == LinesOf(N_do)
HelpLines == LinesOf(N_help)
ClearLines == LinesOf(N_clear)
ContextLines == LinesOf(N_context)
BhlistLines == LinesOf(N_bhlist)
BshowLines == LinesOf(N_bshow) \cup LinesOf(N_bs)
BclearLines == LinesOf(N_bclear) \cup LinesOf(N_bc)
BhprevLines == LinesOf(N_bhprev) \cup LinesOf(N_hp)
BhnextLines == LinesOf(N_bhnext) \cup LinesOf(N_hn)
BhloadLines == LinesOf(N_bhload)
BhclearLines == LinesOf(N_bhclear)
ExitLines == LinesOf(N_exit)
ImportLines == LinesOf(N_import)
UnknownLines ==
    {l \in InputLines :
        Trim(l) # <<>> /\ CommandMatches(Trim(l))
                      /\ CmdName(Trim(l)) \notin CommandNames}

\* mutation of CodeInputs: a command line is pushed to the buffer as well
CodeInputs_CommandsToo ==
    {l \in InputLines : Trim(l) # <<>>}

\* the lines that reach the else branch of the dispatch
CodeInputs ==
    {l \in InputLines : Trim(l) # <<>> /\ ~CommandMatches(Trim(l))}

\* args?.trim() as the handler receives it; a missing argument and the empty
\* text are both falsy in every handler and are both the empty text here
ArgsOf(l) == IF HasArgs(Trim(l)) THEN CmdArgs(Trim(l)) ELSE <<>>

\* `args.trim().split(/\s+/)` on a text that is not blank
RECURSIVE Parts(_)
Parts(t) ==
    LET s == Trim(t)
        n == IF \E i \in 1..Len(s) : s[i] \in Whitespace
             THEN (CHOOSE i \in 1..Len(s) :
                      /\ s[i] \in Whitespace
                      /\ \A k \in 1..(i - 1) : s[k] \notin Whitespace) - 1
             ELSE Len(s)
    IN  IF n = Len(s) THEN <<s>>
        ELSE <<SubSeq(s, 1, n)>> \o Parts(SubSeq(s, n + 1, Len(s)))

\* /^[a-zA-Z_$][a-zA-Z0-9_$]*$/ (the letters the inputs use)
IsIdentifier(t) ==
    /\ t # <<>>
    /\ Head(t) \in Letters \cup {"_", "$"}
    /\ \A i \in 2..Len(t) : t[i] \in Letters \cup Digits \cup {"_", "$"}

\* the name and the URL of a `.import <name> <url>` line
ImportName(l) == Parts(ArgsOf(l))[1]
ImportUrl(l) == Parts(ArgsOf(l))[2]

\* the operations a handler awaits besides the evaluator
PendingImport(name, url) == [op |-> "import", name |-> name, url |-> url]
PendingRead == [op |-> "readTextFile", name |-> <<>>, url |-> <<>>]

\* closeTtyResources: close() is called on the reader, which is then
\* forgotten; the writer is compared with the reader variable, undefined by
\* now, and close() is called on it too, a second time when it is the handle
\* the reader was (that call throws and is logged); `closes` lists the calls
CloseTtyResources(t) ==
    LET readerCalls == IF t.reader # "none" THEN <<t.reader>> ELSE <<>>
        readerAfter == "none"
        writerCalls == IF t.writer # "none" /\ t.writer # readerAfter
                       THEN <<t.writer>> ELSE <<>>
    IN  [reader |-> readerAfter, writer |-> "none",
         open |-> t.open \ {t.reader, t.writer},
         closes |-> t.closes \o readerCalls \o writerCalls]

\* the replaced Deno.exit: closeTtyResources, then the process ends
DenoExit(code) ==
    /\ tty' = CloseTtyResources(tty)
    /\ exitCode' = <<code>>
    /\ pc' = "exited"

Init ==
    /\ codeBuffer = <<>>
    /\ executedBufferHistory = <<>>
    /\ bufferHistoryPointer = -1
    /\ pc = "prompt"
    /\ line = [kind |-> "none", text |-> <<>>]
    /\ notices = {}
    /\ evalCalls = <<>>
    /\ shifted = <<>>
    /\ exitCode = <<>>
    /\ args = NoArgs
    /\ activeImportMap = NoImportMap
    /\ moduleMapFile = MissingFile
    /\ currentMap = EmptyMap
    /\ outcome = NotCalled
    /\ returned = NotReturned
    /\ imports = NoImports
    /\ pendingOps = <<>>
    /\ tty = NoTty

(***************************************************************************)
(* Pure parts of the handlers                                              *)
(***************************************************************************)

\* mutation of PushHistory: an entry equal to the pushed one is removed
PushHistory_MovesEntry(h, b) ==
    LET NotB(e) == e # b
        pushed == Append(SelectSeq(h, NotB), b)
    IN  IF Len(pushed) > HistoryCapacity THEN Tail(pushed) ELSE pushed

\* mutation of PushHistory: pop() in place of shift()
PushHistory_DropsNewest(h, b) ==
    LET pushed == Append(h, b)
    IN  IF Len(pushed) > HistoryCapacity
        THEN SubSeq(pushed, 1, Len(pushed) - 1)
        ELSE pushed

\* push, then shift when the history is over capacity
PushHistory(h, b) ==
    LET pushed == Append(h, b)
    IN  IF Len(pushed) > HistoryCapacity THEN Tail(pushed) ELSE pushed

\* the entry that shift() removes and returns, or s when there is no shift
ShiftedEntry(h, b, s) ==
    LET pushed == Append(h, b)
    IN  IF Len(pushed) > HistoryCapacity THEN Head(pushed) ELSE s

\* what commands[".bshow"] writes for buffer b and pointer p
BshowNotices(b, p) ==
    (IF p # -1 THEN {"Currently viewing history item"} ELSE {})
    \cup (IF Len(b) > 0 THEN {"Current buffer content"}
                        ELSE {"Code buffer is empty."})

\* mutation of PrevPointer: from the live buffer it goes to the oldest entry
PrevPointer_Oldest(h, p) ==
    IF p = -1 THEN 0
    ELSE IF p > 0 THEN p - 1
    ELSE p

\* mutation of PrevPointer: a pointer on a history index is never moved
PrevPointer_Stays(h, p) ==
    IF p = -1 THEN Len(h) - 1 ELSE p

\* commands[".bhprev"] past its empty-history return: the new pointer
PrevPointer(h, p) ==
    IF p = -1 THEN Len(h) - 1
    ELSE IF p > 0 THEN p - 1
    ELSE p

\* mutation of PrevBuffer: the entry is not copied into the buffer
PrevBuffer_NoCopy(h, q, b) == b

\* commands[".bhprev"]: the buffer after the pointer moved to q
PrevBuffer(h, q, b) ==
    IF q >= 0 /\ q < Len(h) THEN h[q + 1] ELSE b

\* mutation of NextView: at the newest entry it stays there
NextView_StaysAtNewest(h, p) ==
    IF p < Len(h) - 1
    THEN [ptr |-> p + 1, buf |-> h[p + 2]]
    ELSE [ptr |-> p, buf |-> h[p + 1]]

\* commands[".bhnext"] past its two early returns: pointer and buffer
NextView(h, p) ==
    IF p < Len(h) - 1
    THEN [ptr |-> p + 1, buf |-> h[p + 2]]
    ELSE [ptr |-> -1, buf |-> <<>>]

\* commands[".bhload"]: the argument is refused with the usage message
BhloadUsage(indexStr) == indexStr = <<>> \/ ParseInt(indexStr).nan

\* mutation of BhloadIndex: the one-based number is used as the index
BhloadIndex_OneBased(indexStr) == ParseInt(indexStr).val

\* commands[".bhload"]: the zero-based index
BhloadIndex(indexStr) == ParseInt(indexStr).val - 1

\* mutation of AppendedBuffer: the loaded snapshot is kept and extended
AppendedBuffer_KeepsSnapshot(b, p, l) == Append(b, l)

\* the live buffer after the loop pushed line l: a loaded snapshot is dropped
AppendedBuffer(b, p, l) ==
    IF p # -1 THEN <<l>> ELSE Append(b, l)

\* the SIGINT listener, the Ctrl+C branch and the Ctrl+D branch all test this
MustClear(b, p) == Len(b) > 0 \/ p # -1

(***************************************************************************)
(* The handlers                                                            *)
(***************************************************************************)

\* mutation of EvaluateCode: the caller does not await the evaluator
EvaluateCode_NotAwaited(code, during) ==
    IF Trim(code) = <<>>
    THEN /\ evalCalls' = <<>>
         /\ pc' = "prompt"
    ELSE /\ evalCalls' = <<[code |-> code, status |-> "pending"]>>
         /\ pc' = "prompt"

\* evaluateCode(code) called from a handler that stays at pc value `during`
\* until the call settles: blank code returns before the evaluator is called
EvaluateCode(code, during) ==
    IF Trim(code) = <<>>
    THEN /\ evalCalls' = <<>>
         /\ pc' = "prompt"
    ELSE /\ evalCalls' = <<[code |-> code, status |-> "pending"]>>
         /\ pc' = during

\* mutation of RunHandler: the pointer is computed before the push
RunHandler_StalePointer ==
    IF Len(codeBuffer) > 0
    THEN LET codeToRun == codeBuffer
         IN  /\ notices' = {"Executing buffered code"}
             /\ executedBufferHistory' =
                    PushHistory(executedBufferHistory, codeToRun)
             /\ shifted' = ShiftedEntry(executedBufferHistory, codeToRun, shifted)
             /\ bufferHistoryPointer' = Len(executedBufferHistory) - 1
             /\ EvaluateCode(JoinLines(codeToRun), "run_eval")
             /\ codeBuffer' = IF pc' = "prompt" THEN <<>> ELSE codeBuffer
             /\ UNCHANGED <<exitCode, mainVars, ioVars>>
    ELSE /\ notices' = {"Buffer is empty. Nothing to execute."}
         /\ codeBuffer' = <<>>
         /\ pc' = "prompt"
         /\ evalCalls' = <<>>
         /\ UNCHANGED <<executedBufferHistory, shifted, exitCode, mainVars, ioVars, bufferHistoryPointer>>

\* mutation of RunHandler: the buffer is executed without the length test
RunHandler_NoEmptyCheck ==
    LET codeToRun == codeBuffer
    IN  /\ notices' = {"Executing buffered code"}
        /\ executedBufferHistory' =
               PushHistory(executedBufferHistory, codeToRun)
        /\ shifted' = ShiftedEntry(executedBufferHistory, codeToRun, shifted)
        /\ bufferHistoryPointer' = Len(executedBufferHistory') - 1
        /\ EvaluateCode(JoinLines(codeToRun), "run_eval")
        /\ codeBuffer' = IF pc' = "prompt" THEN <<>> ELSE codeBuffer
        /\ UNCHANGED <<exitCode, mainVars, ioVars>>

\* commands[".run"], up to the await of evaluateCode
RunHandler ==
    IF Len(codeBuffer) > 0
    THEN LET codeToRun == codeBuffer
         IN  /\ notices' = {"Executing buffered code"}
             /\ executedBufferHistory' =
                    PushHistory(executedBufferHistory, codeToRun)
             /\ shifted' = ShiftedEntry(executedBufferHistory, codeToRun, shifted)
             /\ bufferHistoryPointer' = Len(executedBufferHistory') - 1
             /\ EvaluateCode(JoinLines(codeToRun), "run_eval")
             /\ codeBuffer' = IF pc' = "prompt" THEN <<>> ELSE codeBuffer
             /\ UNCHANGED <<exitCode, mainVars, ioVars>>
    ELSE /\ notices' = {"Buffer is empty. Nothing to execute."}
         /\ codeBuffer' = <<>>
         /\ pc' = "prompt"
         /\ evalCalls' = <<>>
         /\ UNCHANGED <<executedBufferHistory, shifted, exitCode, mainVars, ioVars, bufferHistoryPointer>>

\* mutation of RunEvalDone: a failed evaluation is thrown on and ends the loop
RunEvalDone_FailureExits ==
    /\ pc = "run_eval"
    /\ \E status \in {"ok", "error"} :
          /\ evalCalls' = Settle(evalCalls, status)
          /\ pc' = IF status = "error" THEN "exited" ELSE "prompt"
    /\ codeBuffer' = <<>>
    /\ UNCHANGED <<executedBufferHistory, shifted, exitCode, mainVars, ioVars, bufferHistoryPointer, line, notices>>

\* the evaluator settles; commands[".run"] resumes and clears the buffer
RunEvalDone ==
    /\ pc = "run_eval"
    /\ \E status \in {"ok", "error"} :
          evalCalls' = Settle(evalCalls, status)
    /\ codeBuffer' = <<>>
    /\ pc' = "prompt"
    /\ UNCHANGED <<executedBufferHistory, shifted, exitCode, mainVars, ioVars, bufferHistoryPointer, line, notices>>

\* `line.trim() === ""`
BlankLine ==
    \E l \in BlankInputs :
        /\ Read(l)
        /\ IF Len(codeBuffer) > 0
           THEN RunHandler
           ELSE /\ notices' = {}
                /\ evalCalls' = <<>>
                /\ UNCHANGED <<codeBuffer, executedBufferHistory, shifted, exitCode, mainVars, ioVars,
                               bufferHistoryPointer, pc>>

CmdRun ==
    \E l \in RunLines :
        /\ Read(l)
        /\ RunHandler

\* commands[".do"], up to the await of readTextFile
CmdDo ==
    \E l \in DoLines :
        /\ Read(l)
        /\ evalCalls' = <<>>
        /\ IF ArgsOf(l) = <<>> \/ Trim(ArgsOf(l)) = <<>>
           THEN /\ notices' = {"Usage: .do <filepath>"}
                /\ pc' = "prompt"
                /\ UNCHANGED pendingOps
           ELSE /\ notices' = {"Executing file"}
                /\ pc' = "do_read"
                /\ pendingOps' = <<PendingRead>>
        /\ UNCHANGED <<codeBuffer, executedBufferHistory, shifted, exitCode,
                       mainVars, returned, imports, tty, bufferHistoryPointer>>

\* mutation of DoReadDone: the file content is recorded as an executed buffer
DoReadDone_RecordsFile ==
    /\ pc = "do_read"
    /\ \/ /\ \E msgs \in {{"Error: File not found"},
                          {"Error: Permission denied to read file",
                           "Hint: Ensure the REPL has --allow-read permission."},
                          {"Error reading or executing file"}} :
                notices' = notices \cup msgs
          /\ pc' = "prompt"
          /\ UNCHANGED <<evalCalls, executedBufferHistory>>
       \/ /\ \E fileContent \in FileContents :
                /\ EvaluateCode(fileContent, "do_eval")
                /\ executedBufferHistory' =
                      IF Len(executedBufferHistory) < MaxHistLen
                      THEN Append(executedBufferHistory, <<fileContent>>)
                      ELSE executedBufferHistory
          /\ UNCHANGED notices
    /\ pendingOps' = <<>>
    /\ UNCHANGED <<codeBuffer, shifted, exitCode, mainVars, returned, imports,
                   tty, bufferHistoryPointer, line>>

\* readTextFile settles: it throws, or gives the content to evaluateCode
DoReadDone ==
    /\ pc = "do_read"
    /\ \/ /\ \E msgs \in {{"Error: File not found"},
                          {"Error: Permission denied to read file",
                           "Hint: Ensure the REPL has --allow-read permission."},
                          {"Error reading or executing file"}} :
                notices' = notices \cup msgs
          /\ pc' = "prompt"
          /\ UNCHANGED evalCalls
       \/ /\ \E fileContent \in FileContents :
                EvaluateCode(fileContent, "do_eval")
          /\ UNCHANGED notices
    /\ pendingOps' = <<>>
    /\ UNCHANGED <<codeBuffer, executedBufferHistory, shifted, exitCode,
                   mainVars, returned, imports, tty, bufferHistoryPointer, line>>

\* the evaluator settles; commands[".do"] returns
DoEvalDone ==
    /\ pc = "do_eval"
    /\ \E status \in {"ok", "error"} :
          evalCalls' = Settle(evalCalls, status)
    /\ pc' = "prompt"
    /\ UNCHANGED <<codeBuffer, executedBufferHistory, shifted, exitCode, mainVars, ioVars, bufferHistoryPointer,
                   line, notices>>

\* handlers that only write to the console: .help, .clear, .context, .bhlist
CmdShowOnly ==
    \E l \in HelpLines \cup ClearLines \cup ContextLines \cup BhlistLines :
        /\ Read(l)
        /\ \/ l \in HelpLines /\ notices' = {"Welcome to the dx."}
           \/ l \in ClearLines /\ notices' = {}
           \/ /\ l \in ContextLines
              /\ notices' = {"globalThis._input:", "globalThis._imports:"}
           \/ /\ l \in BhlistLines
              /\ notices' = IF Len(executedBufferHistory) = 0
                            THEN {"No history available."}
                            ELSE {"Executed Buffer History:"}
        /\ evalCalls' = <<>>
        /\ UNCHANGED <<codeBuffer, executedBufferHistory, shifted, exitCode, mainVars, ioVars,
                       bufferHistoryPointer, pc>>

\* commands[".bshow"] and its alias .bs
CmdBshow ==
    \E l \in BshowLines :
        /\ Read(l)
        /\ notices' = BshowNotices(codeBuffer, bufferHistoryPointer)
        /\ evalCalls' = <<>>
        /\ UNCHANGED <<codeBuffer, executedBufferHistory, shifted, exitCode, mainVars, ioVars,
                       bufferHistoryPointer, pc>>

\* mutation of CmdBclear: the history is cleared with the buffer
CmdBclear_ClearsHistory ==
    \E l \in BclearLines :
        /\ Read(l)
        /\ codeBuffer' = <<>>
        /\ bufferHistoryPointer' = -1
        /\ executedBufferHistory' = <<>>
        /\ notices' = {"Code buffer cleared. Switched to live input."}
        /\ evalCalls' = <<>>
        /\ UNCHANGED <<shifted, exitCode, mainVars, ioVars, pc>>

\* commands[".bclear"] and its alias .bc
CmdBclear ==
    \E l \in BclearLines :
        /\ Read(l)
        /\ codeBuffer' = <<>>
        /\ bufferHistoryPointer' = -1
        /\ notices' = {"Code buffer cleared. Switched to live input."}
        /\ evalCalls' = <<>>
        /\ UNCHANGED <<executedBufferHistory, shifted, exitCode, mainVars, ioVars, pc>>

\* commands[".bhprev"] and its alias .hp
CmdBhprev ==
    \E l \in BhprevLines :
        /\ Read(l)
        /\ evalCalls' = <<>>
        /\ IF Len(executedBufferHistory) = 0
           THEN /\ notices' = {"No history available."}
                /\ UNCHANGED <<codeBuffer, bufferHistoryPointer>>
           ELSE /\ bufferHistoryPointer' =
                      PrevPointer(executedBufferHistory, bufferHistoryPointer)
                /\ codeBuffer' =
                      PrevBuffer(executedBufferHistory, bufferHistoryPointer',
                                 codeBuffer)
                /\ notices' =
                      (IF bufferHistoryPointer # -1 /\ ~(bufferHistoryPointer > 0)
                       THEN {"Already at the oldest history item."} ELSE {})
                      \cup BshowNotices(codeBuffer', bufferHistoryPointer')
        /\ UNCHANGED <<executedBufferHistory, shifted, exitCode, mainVars, ioVars, pc>>

\* commands[".bhnext"] and its alias .hn
CmdBhnext ==
    \E l \in BhnextLines :
        /\ Read(l)
        /\ evalCalls' = <<>>
        /\ IF Len(executedBufferHistory) = 0
           THEN /\ notices' = {"No history available."}
                /\ UNCHANGED <<codeBuffer, bufferHistoryPointer>>
           ELSE IF bufferHistoryPointer = -1
           THEN /\ notices' = {"Currently on live buffer."}
                /\ UNCHANGED <<codeBuffer, bufferHistoryPointer>>
           ELSE LET view == NextView(executedBufferHistory, bufferHistoryPointer)
                IN  /\ bufferHistoryPointer' = view.ptr
                    /\ codeBuffer' = view.buf
                    /\ notices' =
                          (IF view.ptr = -1
                           THEN {"At the newest history item."} ELSE {})
                          \cup BshowNotices(view.buf, view.ptr)
        /\ UNCHANGED <<executedBufferHistory, shifted, exitCode, mainVars, ioVars, pc>>

\* commands[".bhload"]
CmdBhload ==
    \E l \in BhloadLines :
        /\ Read(l)
        /\ evalCalls' = <<>>
        /\ IF BhloadUsage(ArgsOf(l))
           THEN /\ notices' = {"Usage: .bhload <history_index> (1-based)"}
                /\ UNCHANGED <<codeBuffer, bufferHistoryPointer>>
           ELSE LET index == BhloadIndex(ArgsOf(l))
                IN  IF index >= 0 /\ index < Len(executedBufferHistory)
                    THEN /\ bufferHistoryPointer' = index
                         /\ codeBuffer' = executedBufferHistory[index + 1]
                         /\ notices' =
                               {"Loaded history item"}
                               \cup BshowNotices(codeBuffer', index)
                    ELSE /\ notices' = {"Invalid history index."}
                         /\ UNCHANGED <<codeBuffer, bufferHistoryPointer>>
        /\ UNCHANGED <<executedBufferHistory, shifted, exitCode, mainVars, ioVars, pc>>

\* mutation of CmdBhclear: the live buffer is kept
CmdBhclear_KeepsBuffer ==
    \E l \in BhclearLines :
        /\ Read(l)
        /\ executedBufferHistory' = <<>>
        /\ bufferHistoryPointer' = -1
        /\ notices' = {"Executed buffer history cleared."}
        /\ evalCalls' = <<>>
        /\ UNCHANGED <<codeBuffer, pc, shifted, exitCode, mainVars, ioVars>>

\* mutation of CmdBhclear: the pointer is not reset
CmdBhclear_KeepsPointer ==
    \E l \in BhclearLines :
        /\ Read(l)
        /\ executedBufferHistory' = <<>>
        /\ codeBuffer' = <<>>
        /\ notices' = {"Executed buffer history cleared."}
        /\ evalCalls' = <<>>
        /\ UNCHANGED <<pc, shifted, exitCode, mainVars, ioVars, bufferHistoryPointer>>

\* commands[".bhclear"]
CmdBhclear ==
    \E l \in BhclearLines :
        /\ Read(l)
        /\ executedBufferHistory' = <<>>
        /\ bufferHistoryPointer' = -1
        /\ codeBuffer' = <<>>
        /\ notices' = {"Executed buffer history cleared."}
        /\ evalCalls' = <<>>
        /\ UNCHANGED <<pc, shifted, exitCode, mainVars, ioVars>>

\* prepareSpecifierForImport(undefined): no import map is passed, new URL
\* refuses undefined, and `specifier.startsWith` throws a TypeError
UndefinedSpecifier ==
    [state |-> "rejected", value |-> <<>>,
     message |-> <<"Cannot read properties of undefined (reading 'startsWith')",
                   <<>>, "">>]

\* commands[".import"]: the usage, the checks of the name and of the URL,
\* then `await import(url)`
CmdImport ==
    \E l \in ImportLines :
        /\ Read(l)
        /\ evalCalls' = <<>>
        /\ IF ArgsOf(l) = <<>>
           THEN /\ notices' = {"Usage: .import <name> <url>"}
                /\ UNCHANGED <<pc, pendingOps>>
           ELSE IF Len(Parts(ArgsOf(l))) # 2
           THEN /\ notices' = {"Usage: .import <name> <url>",
                               "Example: .import path https://deno.land/std/path/mod.ts"}
                /\ UNCHANGED <<pc, pendingOps>>
           ELSE IF ~IsIdentifier(ImportName(l))
           THEN /\ notices' = {"Invalid module name"}
                /\ UNCHANGED <<pc, pendingOps>>
           ELSE IF ~ParsesAsURL(ImportUrl(l))
           THEN /\ notices' = {"Invalid URL format"}
                /\ UNCHANGED <<pc, pendingOps>>
           ELSE /\ notices' = {"Attempting to import module"}
                /\ pendingOps' = <<PendingImport(ImportName(l), ImportUrl(l))>>
                /\ pc' = "import_module"
        /\ UNCHANGED <<codeBuffer, executedBufferHistory, shifted, exitCode,
                       mainVars, returned, imports, tty, bufferHistoryPointer>>

\* `await import(url)` settles: a rejection goes to the catch block, which
\* writes it; else the module is bound at _imports[name] and
\* addModuleToMap({ name, url }) starts with loadModuleMap, where
\* ensureDirSync may throw to the same catch block
ImportSettled ==
    /\ pc = "import_module"
    /\ \/ /\ notices' = notices \cup {"Error importing module"}
          /\ pendingOps' = <<>>
          /\ pc' = "prompt"
          /\ UNCHANGED imports
       \/ /\ imports' = Bound(imports, pendingOps[1].name, pendingOps[1].url)
          /\ IF moduleMapFile.kind = "nodir"
             THEN /\ notices' = notices \cup {"Error importing module"}
                  /\ pendingOps' = <<>>
                  /\ pc' = "prompt"
             ELSE /\ pendingOps' = <<PendingRead>>
                  /\ pc' = "import_load"
                  /\ UNCHANGED notices
    /\ UNCHANGED <<codeBuffer, executedBufferHistory, shifted, exitCode,
                   mainVars, returned, tty, bufferHistoryPointer, line,
                   evalCalls>>

\* loadModuleMap settles inside addModuleToMap({ name, url }): the lookup
\* `currentMap[entry.name]` throws when the file held null; else
\* prepareSpecifierForImport(entry.specifier) is called with undefined and
\* throws. Either error goes to the catch block of the handler, which writes
\* it; saveModuleMap is never reached
ImportMapLoaded ==
    /\ pc = "import_load"
    /\ LET loaded == LoadModuleMap(moduleMapFile)
       IN  /\ returned' = loaded
           /\ currentMap' = loaded.map
           /\ outcome' = IF loaded.kind = "map" THEN UndefinedSpecifier
                         ELSE outcome
           /\ notices' = notices \cup LoadNotices(loaded, ImportName(line.text))
                            \cup {"Error importing module"}
    /\ pendingOps' = <<>>
    /\ pc' = "prompt"
    /\ UNCHANGED <<codeBuffer, executedBufferHistory, shifted, exitCode, args,
                   activeImportMap, moduleMapFile, imports, tty,
                   bufferHistoryPointer, line, evalCalls>>

\* commands[".exit"]: Deno.exit(0)
CmdExit ==
    \E l \in ExitLines :
        /\ Read(l)
        /\ notices' = {"Exiting REPL."}
        /\ evalCalls' = <<>>
        /\ DenoExit(0)
        /\ UNCHANGED <<codeBuffer, executedBufferHistory, shifted, mainVars,
                       returned, imports, pendingOps, bufferHistoryPointer>>

\* mutation of UnknownCommand: the line falls through to the code branch
UnknownCommand_Appends ==
    \E l \in UnknownLines :
        /\ Read(l)
        /\ notices' = {"Unknown command. Not added to buffer."}
        /\ evalCalls' = <<>>
        /\ codeBuffer' = IF Len(codeBuffer) < 2 THEN Append(codeBuffer, l)
                                                ELSE codeBuffer
        /\ UNCHANGED <<executedBufferHistory, shifted, exitCode, mainVars, ioVars,
                       bufferHistoryPointer, pc>>

\* a command line whose name is not a key of `commands`
UnknownCommand ==
    \E l \in UnknownLines :
        /\ Read(l)
        /\ notices' = {"Unknown command. Not added to buffer."}
        /\ evalCalls' = <<>>
        /\ UNCHANGED <<codeBuffer, executedBufferHistory, shifted, exitCode, mainVars, ioVars,
                       bufferHistoryPointer, pc>>

\* any other line is code: it leaves the history view and joins the buffer
AppendLine ==
    \E l \in CodeInputs :
        /\ Read(l)
        /\ codeBuffer' = AppendedBuffer(codeBuffer, bufferHistoryPointer, l)
        /\ bufferHistoryPointer' = -1
        /\ notices' = IF bufferHistoryPointer # -1
                      THEN {"(Exited history view. Started new live buffer)"}
                      ELSE {}
        /\ evalCalls' = <<>>
        /\ UNCHANGED <<executedBufferHistory, shifted, exitCode, mainVars, ioVars, pc>>

\* mutation of PromptAborted: the abort falls through to Deno.exit(1)
PromptAborted_Exits ==
    /\ pc = "prompt"
    /\ line' = [kind |-> "aborted", text |-> <<>>]
    /\ IF MustClear(codeBuffer, bufferHistoryPointer)
       THEN /\ codeBuffer' = <<>>
            /\ bufferHistoryPointer' = -1
            /\ notices' = {"Code buffer cleared and exited history view by Ctrl+C at prompt."}
       ELSE /\ notices' = {""}
            /\ UNCHANGED <<codeBuffer, bufferHistoryPointer>>
    /\ evalCalls' = <<>>
    /\ pc' = "exited"
    /\ UNCHANGED <<executedBufferHistory, shifted, exitCode, mainVars, ioVars>>

\* Input.prompt throws "Prompt was aborted" (Ctrl+C): the loop continues
PromptAborted ==
    /\ pc = "prompt"
    /\ line' = [kind |-> "aborted", text |-> <<>>]
    /\ IF MustClear(codeBuffer, bufferHistoryPointer)
       THEN /\ codeBuffer' = <<>>
            /\ bufferHistoryPointer' = -1
            /\ notices' = {"Code buffer cleared and exited history view by Ctrl+C at prompt."}
       ELSE /\ notices' = {""}
            /\ UNCHANGED <<codeBuffer, bufferHistoryPointer>>
    /\ evalCalls' = <<>>
    /\ UNCHANGED <<executedBufferHistory, shifted, exitCode, mainVars, ioVars, pc>>

\* Input.prompt throws anything else: Deno.exit(1)
PromptFailed ==
    /\ pc = "prompt"
    /\ line' = [kind |-> "error", text |-> <<>>]
    /\ notices' = {"Error during prompt"}
    /\ evalCalls' = <<>>
    /\ DenoExit(1)
    /\ UNCHANGED <<codeBuffer, executedBufferHistory, shifted, mainVars,
                   returned, imports, pendingOps, bufferHistoryPointer>>

\* mutation of PromptEof: end-of-input at an empty prompt leaves the loop
PromptEof_Exits ==
    /\ pc = "prompt"
    /\ line' = [kind |-> "null", text |-> <<>>]
    /\ IF MustClear(codeBuffer, bufferHistoryPointer)
       THEN /\ codeBuffer' = <<>>
            /\ bufferHistoryPointer' = -1
            /\ notices' = {"Code buffer cleared and exited history view by Ctrl+D at prompt."}
            /\ pc' = "prompt"
       ELSE /\ notices' = {""}
            /\ pc' = "exited"
            /\ UNCHANGED <<codeBuffer, bufferHistoryPointer>>
    /\ evalCalls' = <<>>
    /\ UNCHANGED <<executedBufferHistory, shifted, exitCode, mainVars, ioVars>>

\* Input.prompt returns null (Ctrl+D): the loop continues
PromptEof ==
    /\ pc = "prompt"
    /\ line' = [kind |-> "null", text |-> <<>>]
    /\ IF MustClear(codeBuffer, bufferHistoryPointer)
       THEN /\ codeBuffer' = <<>>
            /\ bufferHistoryPointer' = -1
            /\ notices' = {"Code buffer cleared and exited history view by Ctrl+D at prompt."}
       ELSE /\ notices' = {""}
            /\ UNCHANGED <<codeBuffer, bufferHistoryPointer>>
    /\ evalCalls' = <<>>
    /\ UNCHANGED <<executedBufferHistory, shifted, exitCode, mainVars, ioVars, pc>>

\* mutation of SigInt: the listener abandons the call in flight and the loop
\* prompts again
SigInt_CancelsCall ==
    /\ pc # "exited"
    /\ IF MustClear(codeBuffer, bufferHistoryPointer)
       THEN /\ codeBuffer' = <<>>
            /\ bufferHistoryPointer' = -1
            /\ notices' = notices \cup {"Code buffer cleared by SIGINT."}
       ELSE /\ notices' = notices \cup {""}
            /\ UNCHANGED <<codeBuffer, bufferHistoryPointer>>
    /\ pc' = "prompt"
    /\ evalCalls' = <<>>
    /\ pendingOps' = <<>>
    /\ UNCHANGED <<executedBufferHistory, shifted, exitCode, mainVars,
                   returned, imports, tty, line>>

\* the SIGINT listener: it runs whenever the event loop turns, also while a
\* handler is awaiting the evaluator or a file read
SigInt ==
    /\ pc # "exited"
    /\ IF MustClear(codeBuffer, bufferHistoryPointer)
       THEN /\ codeBuffer' = <<>>
            /\ bufferHistoryPointer' = -1
            /\ notices' = notices \cup {"Code buffer cleared by SIGINT."}
       ELSE /\ notices' = notices \cup {""}
            /\ UNCHANGED <<codeBuffer, bufferHistoryPointer>>
    /\ UNCHANGED <<executedBufferHistory, shifted, exitCode, mainVars, ioVars, pc, line, evalCalls>>

(***************************************************************************)
(* main (src/unnamed/part_000): the one-shot modes                         *)
(***************************************************************************)

\* the state of the REPL, which main's one-shot modes leave alone
replVars ==
    <<codeBuffer, executedBufferHistory, bufferHistoryPointer, line, shifted>>

isCodeMode == args.code # <<>>
isInputMode == args.input # <<>>

\* main is started in a one-shot mode: the import map has been looked for
InitMain ==
    /\ codeBuffer = <<>>
    /\ executedBufferHistory = <<>>
    /\ bufferHistoryPointer = -1
    /\ pc = "main"
    /\ line = [kind |-> "none", text |-> <<>>]
    /\ notices = {}
    /\ evalCalls = <<>>
    /\ shifted = <<>>
    /\ exitCode = <<>>
    /\ args \in MainArgs
    /\ activeImportMap \in ImportMaps
    /\ moduleMapFile \in ModuleMapFiles
    /\ currentMap = EmptyMap
    /\ outcome = NotCalled
    /\ returned = NotReturned
    /\ imports = NoImports
    /\ pendingOps = <<>>
    /\ tty = NoTty

\* `if (args.help)`: printHelp and Deno.exit(0)
MainHelp ==
    /\ pc = "main"
    /\ args.help
    /\ notices' = {"dx - Deno-based JavaScript/TypeScript REPL and script runner."}
    /\ pc' = "exited"
    /\ exitCode' = <<0>>
    /\ UNCHANGED <<replVars, evalCalls, mainVars, ioVars>>

\* the evaluator settles: evaluateCode has caught and written the error of a
\* failed evaluation, it returns, and main calls Deno.exit(0)
MainEvalDone ==
    /\ pc = "oneshot_eval"
    /\ \E status \in {"ok", "error"} :
          /\ evalCalls' = Settle(evalCalls, status)
          /\ notices' = IF status = "error" THEN {"<name>: <message>"} ELSE {}
    /\ pc' = "exited"
    /\ exitCode' = <<0>>
    /\ UNCHANGED <<replVars, mainVars, ioVars>>

\* evaluateCode(code) called from main: blank code returns at once and main
\* exits with 0, any other code goes to the evaluator
OneShotEvaluate(code) ==
    IF Trim(code) = <<>>
    THEN /\ evalCalls' = <<>>
         /\ pc' = "exited"
         /\ exitCode' = <<0>>
    ELSE /\ evalCalls' = <<[code |-> code, status |-> "pending"]>>
         /\ pc' = "oneshot_eval"
         /\ UNCHANGED exitCode

\* `if (isCodeMode)`: loadInitialData, then evaluateCode(codeOption); what
\* loadInitialData throws goes to the catch block and Deno.exit(1)
MainCode ==
    /\ pc = "main"
    /\ ~args.help
    /\ isCodeMode
    /\ \/ /\ notices' = {"Error during code execution (-c):"}
          /\ evalCalls' = <<>>
          /\ pc' = "exited"
          /\ exitCode' = <<1>>
       \/ /\ notices' = {}
          /\ OneShotEvaluate(args.code)
    /\ UNCHANGED <<replVars, mainVars, ioVars>>

\* `if (!isCodeMode && inputFile)`: loadInitialData, readTextFile, then
\* evaluateCode(fileContent); a failed read goes to the catch block
MainInput ==
    /\ pc = "main"
    /\ ~args.help
    /\ ~isCodeMode
    /\ isInputMode
    /\ \/ /\ \E msg \in {"File not found", "Permission denied when trying to read",
                         "Error during script execution"} :
                notices' = {msg}
          /\ evalCalls' = <<>>
          /\ pc' = "exited"
          /\ exitCode' = <<1>>
       \/ /\ notices' = {}
          /\ \E fileContent \in FileContents : OneShotEvaluate(fileContent)
    /\ UNCHANGED <<replVars, mainVars, ioVars>>

\* `module add <name> <specifier>`: addModuleToMap starts by awaiting
\* loadModuleMap
MainModuleAdd ==
    /\ pc = "main"
    /\ ~args.help
    /\ ~isCodeMode
    /\ ~isInputMode
    /\ args.command = "add"
    /\ pc' = "add_load"
    /\ notices' = {}
    /\ UNCHANGED <<replVars, evalCalls, exitCode, mainVars, ioVars>>

\* mutation of AddLoaded: the entry is written under the specifier as given
\* before the specifier is resolved
AddLoaded_WritesBeforeResolving ==
    /\ pc = "add_load"
    /\ LET loaded == LoadModuleMap(moduleMapFile)
           resolved == PrepareSpecifierForImport(args.specifier, activeImportMap)
       IN  IF loaded.kind # "map"
           THEN /\ currentMap' = EmptyMap
                /\ notices' = {"Unhandled error in main:"}
                /\ pc' = "exited"
                /\ exitCode' = <<1>>
                /\ UNCHANGED <<outcome, moduleMapFile>>
           ELSE /\ outcome' = resolved
                /\ currentMap' = WithEntry(loaded.map, args.name, args.specifier)
                /\ moduleMapFile' = Stringified(currentMap')
                /\ IF resolved.state = "resolved"
                   THEN /\ notices' = LoadNotices(loaded, args.name)
                        /\ pc' = "add_save"
                        /\ UNCHANGED exitCode
                   ELSE /\ notices' = LoadNotices(loaded, args.name)
                                         \cup {"Unhandled error in main:"}
                        /\ pc' = "exited"
                        /\ exitCode' = <<1>>
    /\ UNCHANGED <<replVars, evalCalls, args, activeImportMap, ioVars>>

\* addModuleToMap once loadModuleMap has settled: loadModuleMap threw, or
\* `currentMap[entry.name]` throws a TypeError because the file held null;
\* else it warns when the name is taken
\* and resolves the specifier. Whatever is thrown leaves addModuleToMap and
\* main and is caught by main().catch, which exits with 1; otherwise the
\* entry is set and saveModuleMap is awaited
AddLoaded ==
    /\ pc = "add_load"
    /\ LET loaded == LoadModuleMap(moduleMapFile)
           resolved == PrepareSpecifierForImport(args.specifier, activeImportMap)
       IN  IF loaded.kind # "map"
           THEN /\ currentMap' = EmptyMap
                /\ notices' = {"Unhandled error in main:"}
                /\ pc' = "exited"
                /\ exitCode' = <<1>>
                /\ UNCHANGED outcome
           ELSE /\ outcome' = resolved
                /\ IF resolved.state = "resolved"
                   THEN /\ currentMap' =
                              WithEntry(loaded.map, args.name, resolved.value)
                        /\ notices' = LoadNotices(loaded, args.name)
                        /\ pc' = "add_save"
                        /\ UNCHANGED exitCode
                   ELSE /\ currentMap' = loaded.map
                        /\ notices' = LoadNotices(loaded, args.name)
                                         \cup {"Unhandled error in main:"}
                        /\ pc' = "exited"
                        /\ exitCode' = <<1>>
    /\ UNCHANGED <<replVars, evalCalls, args, activeImportMap, moduleMapFile,
                   ioVars>>

\* saveModuleMap settles: the file is overwritten, or the write fails and is
\* only logged; main then reports the module as added and exits with 0
AddSaved ==
    /\ pc = "add_save"
    /\ \/ /\ moduleMapFile' = Stringified(currentMap)
          /\ notices' = notices \cup {"Module added to map."}
       \/ /\ UNCHANGED moduleMapFile
          /\ notices' = notices \cup {"Error saving module map",
                                      "Module added to map."}
    /\ pc' = "exited"
    /\ exitCode' = <<0>>
    /\ UNCHANGED <<replVars, evalCalls, args, activeImportMap, currentMap,
                   outcome,
                   ioVars>>

\* `module remove <name>`: removeModuleFromMap starts by awaiting
\* loadModuleMap
MainModuleRemove ==
    /\ pc = "main"
    /\ ~args.help
    /\ ~isCodeMode
    /\ ~isInputMode
    /\ args.command = "remove"
    /\ pc' = "remove_load"
    /\ notices' = {}
    /\ UNCHANGED <<replVars, evalCalls, exitCode, mainVars, ioVars>>

\* removeModuleFromMap once loadModuleMap has settled: loadModuleMap threw,
\* or `currentMap[moduleName]` throws a TypeError because the file held
\* null; when the lookup is truthy the entry is
\* deleted and saveModuleMap is awaited; otherwise false is returned, and
\* main reports the module as not found and exits with 0
RemoveLoaded ==
    /\ pc = "remove_load"
    /\ LET loaded == LoadModuleMap(moduleMapFile)
       IN  IF loaded.kind # "map"
           THEN /\ currentMap' = EmptyMap
                /\ notices' = {"Unhandled error in main:"}
                /\ pc' = "exited"
                /\ exitCode' = <<1>>
           ELSE IF HasTruthy(loaded.map, args.name)
           THEN /\ currentMap' = WithoutEntry(loaded.map, args.name)
                /\ notices' = LoadNotices(loaded, <<>>)
                /\ pc' = "remove_save"
                /\ UNCHANGED exitCode
           ELSE /\ currentMap' = loaded.map
                /\ notices' = LoadNotices(loaded, <<>>)
                                 \cup {"Module not found in map."}
                /\ pc' = "exited"
                /\ exitCode' = <<0>>
    /\ UNCHANGED <<replVars, evalCalls, args, activeImportMap, moduleMapFile,
                   outcome,
                   ioVars>>

\* saveModuleMap settles in removeModuleFromMap, which returns true: main
\* reports the module as removed and exits with 0
RemoveSaved ==
    /\ pc = "remove_save"
    /\ \/ /\ moduleMapFile' = Stringified(currentMap)
          /\ notices' = notices \cup {"Module removed from map."}
       \/ /\ UNCHANGED moduleMapFile
          /\ notices' = notices \cup {"Error saving module map",
                                      "Module removed from map."}
    /\ pc' = "exited"
    /\ exitCode' = <<0>>
    /\ UNCHANGED <<replVars, evalCalls, args, activeImportMap, currentMap,
                   outcome,
                   ioVars>>

\* `module list`: listModulesInMap is loadModuleMap
MainModuleList ==
    /\ pc = "main"
    /\ ~args.help
    /\ ~isCodeMode
    /\ ~isInputMode
    /\ args.command = "list"
    /\ pc' = "list_load"
    /\ notices' = {}
    /\ UNCHANGED <<replVars, evalCalls, exitCode, mainVars, ioVars>>

\* main once listModulesInMap has settled: it threw, or Object.keys(moduleMap)
\* throws a TypeError because the file held null; else the map is listed and
\* main exits with 0
ListLoaded ==
    /\ pc = "list_load"
    /\ LET loaded == LoadModuleMap(moduleMapFile)
       IN  IF loaded.kind # "map"
           THEN /\ currentMap' = EmptyMap
                /\ notices' = {"Unhandled error in main:"}
                /\ exitCode' = <<1>>
           ELSE /\ currentMap' = loaded.map
                /\ notices' = LoadNotices(loaded, <<>>)
                      \cup (IF DOMAIN loaded.map = {}
                            THEN {"Module map is empty."}
                            ELSE {"Current module map:"})
                /\ exitCode' = <<0>>
    /\ pc' = "exited"
    /\ UNCHANGED <<replVars, evalCalls, args, activeImportMap, moduleMapFile,
                   outcome,
                   ioVars>>

\* the default mode: loadInitialData, which may throw to main().catch, then
\* `_imports = {}` and loadModuleMap
MainRepl ==
    /\ pc = "main"
    /\ ~args.help
    /\ ~isCodeMode
    /\ ~isInputMode
    /\ args.command = "none"
    /\ \/ /\ notices' = {"Unhandled error in main:"}
          /\ DenoExit(1)
          /\ UNCHANGED pendingOps
       \/ /\ notices' = {}
          /\ pendingOps' = <<PendingRead>>
          /\ pc' = "repl_load"
          /\ UNCHANGED <<exitCode, tty>>
    /\ imports' = NoImports
    /\ UNCHANGED <<replVars, evalCalls, mainVars, returned>>

\* the import main awaits after the one of the entry `name`, if any; the
\* entries are taken in the order of Object.entries
NextImport(map, name) ==
    LET keys == KeySeq(DOMAIN map)
        at == CHOOSE i \in 1..Len(keys) : keys[i] = name
    IN  IF at < Len(keys)
        THEN <<PendingImport(keys[at + 1], map[keys[at + 1]].url)>>
        ELSE <<>>

\* loadModuleMap settles in main: it threw, or Object.keys(moduleMap) throws
\* because the file held null, and main().catch exits with 1; else the
\* import of the first entry starts, or startRepl is next for an empty map
ReplMapLoaded ==
    /\ pc = "repl_load"
    /\ LET loaded == LoadModuleMap(moduleMapFile)
       IN  /\ returned' = loaded
           /\ currentMap' = loaded.map
           /\ IF loaded.kind # "map"
              THEN /\ notices' = {"Unhandled error in main:"}
                   /\ pendingOps' = <<>>
                   /\ DenoExit(1)
              ELSE /\ UNCHANGED <<exitCode, tty>>
                   /\ IF DOMAIN loaded.map = {}
                      THEN /\ notices' = LoadNotices(loaded, <<>>)
                           /\ pendingOps' = <<>>
                           /\ pc' = "repl_start"
                      ELSE /\ notices' = LoadNotices(loaded, <<>>)
                                 \cup {"Loading modules from map..."}
                           /\ pendingOps' =
                                 LET first == KeySeq(DOMAIN loaded.map)[1]
                                 IN  <<PendingImport(first,
                                                     loaded.map[first].url)>>
                           /\ pc' = "repl_import"
    /\ UNCHANGED <<replVars, evalCalls, args, activeImportMap, moduleMapFile,
                   outcome, imports>>

\* `await import(entry.url)` settles in main's loop: the module is bound at
\* _imports[name]; or the import rejects with a value that has properties
\* and the catch block writes its message; or it rejects with null or
\* undefined, `error.message` throws in the catch block and main().catch
\* exits with 1. Main goes on with the next entry, then with startRepl
ReplImportSettled ==
    /\ pc = "repl_import"
    /\ LET current == pendingOps[1]
           following == NextImport(currentMap, current.name)
       IN  \/ /\ imports' = Bound(imports, current.name, current.url)
              /\ notices' = notices \cup {"Loaded"}
              /\ pendingOps' = following
              /\ pc' = IF following = <<>> THEN "repl_start" ELSE "repl_import"
              /\ UNCHANGED <<exitCode, tty>>
           \/ /\ notices' = notices \cup {"Error loading module"}
              /\ pendingOps' = following
              /\ pc' = IF following = <<>> THEN "repl_start" ELSE "repl_import"
              /\ UNCHANGED <<exitCode, tty, imports>>
           \/ /\ notices' = notices \cup {"Unhandled error in main:"}
              /\ pendingOps' = <<>>
              /\ DenoExit(1)
              /\ UNCHANGED imports
    /\ UNCHANGED <<replVars, evalCalls, mainVars, returned>>

\* what prepareTtyForPromptIfStdinIsPiped leaves: nothing when stdin is a
\* terminal or the first open failed; /dev/tty as reader and writer; CONIN$
\* and CONOUT$; and, when CONIN$ was opened and CONOUT$ could not be, both
\* variables undefined again with CONIN$ still open
TtyOutcomes ==
    {NoTty,
     [NoTty EXCEPT !.reader = "tty", !.writer = "tty", !.open = {"tty"}],
     [NoTty EXCEPT !.reader = "conin", !.writer = "conout",
                   !.open = {"conin", "conout"}],
     [NoTty EXCEPT !.open = {"conin"}]}

\* startRepl up to its loop: the SIGINT listener, the welcome, and
\* prepareTtyForPromptIfStdinIsPiped
ReplStart ==
    /\ pc = "repl_start"
    /\ \E t \in TtyOutcomes :
          /\ tty' = t
          /\ notices' = {"Welcome to dx"}
                \cup (IF t.open # {} /\ t.reader = "none"
                      THEN {"Failed to open TTY"} ELSE {})
    /\ pc' = "prompt"
    /\ UNCHANGED <<replVars, evalCalls, exitCode, mainVars, returned, imports,
                   pendingOps>>

NextMain ==
    \/ MainHelp
    \/ MainCode
    \/ MainInput
    \/ MainEvalDone
    \/ MainModuleAdd
    \/ MainModuleRemove
    \/ RemoveLoaded
    \/ RemoveSaved
    \/ MainModuleList
    \/ ListLoaded
    \/ AddLoaded
    \/ AddSaved
    \/ MainRepl
    \/ ReplMapLoaded
    \/ ReplImportSettled
    \/ ReplStart
    \/ CmdExit
    \/ PromptFailed

SpecMain == InitMain /\ [][NextMain]_vars

(***************************************************************************)
(* Specifications                                                          *)
(***************************************************************************)

\* Spec: the user types the lines of Programs and executes at most
\* MaxHistLen buffers before clearing the history
TypesProgram == \E prog \in Programs : IsPrefix(codeBuffer', prog)

HistoryBounded == Len(executedBufferHistory') <= MaxHistLen

UserAppend == AppendLine /\ TypesProgram
UserBlank == BlankLine /\ HistoryBounded
UserRun == CmdRun /\ HistoryBounded

Next ==
    \/ UserAppend
    \/ UserBlank
    \/ UserRun
    \/ RunEvalDone
    \/ CmdDo
    \/ DoReadDone
    \/ DoEvalDone
    \/ CmdShowOnly
    \/ CmdBshow
    \/ CmdBclear
    \/ CmdBhprev
    \/ CmdBhnext
    \/ CmdBhload
    \/ CmdBhclear
    \/ CmdImport
    \/ ImportSettled
    \/ ImportMapLoaded
    \/ CmdExit
    \/ UnknownCommand
    \/ PromptAborted
    \/ PromptFailed
    \/ PromptEof
    \/ SigInt

Spec == Init /\ [][Next]_vars

\* SpecCap: the user executes one-line buffers until the history is full and
\* beyond; the first MaxVaried of them are <<La>> or <<Lb>>, the rest <<La>>
TypesOneLine ==
    /\ Len(codeBuffer') = 1
    /\ codeBuffer' # <<La>> => Len(executedBufferHistory) < MaxVaried

CapAppend == AppendLine /\ TypesOneLine

NextCap ==
    \/ CapAppend
    \/ BlankLine
    \/ CmdRun
    \/ RunEvalDone

SpecCap == Init /\ [][NextCap]_vars

(***************************************************************************)
(* Properties                                                              *)
(***************************************************************************)

\* a step that dispatches an execute: .run, or an empty line
ExecuteStep == CmdRun \/ BlankLine

\* the newest entry of history h
Newest(h) == h[Len(h)]

SigintNotice == "Code buffer cleared by SIGINT."

\* C1 (as stated): an execute of a non-empty buffer B makes B the newest
\* history entry and hands the evaluator the lines of B joined by newlines,
\* once; when the evaluator settles the buffer is empty and the pointer is
\* at the newest history index.
C1_ExecuteAsStated ==
    [][/\ (ExecuteStep /\ Len(codeBuffer) > 0) =>
            /\ Newest(executedBufferHistory') = codeBuffer
            /\ evalCalls' = <<[code |-> JoinLines(codeBuffer),
                               status |-> "pending"]>>
       /\ RunEvalDone =>
            /\ codeBuffer' = <<>>
            /\ bufferHistoryPointer' = Len(executedBufferHistory') - 1
      ]_vars

\* C1 (amended): as above, and when the evaluator settles the buffer is
\* empty and the pointer is at the newest history index unless the SIGINT
\* listener cleared the state while the evaluator was running, and then
\* the pointer is -1. From history <<>> and buffer <<La, Lb>> the evaluator
\* gets the two lines with one newline between them.
C1_Execute ==
    [][/\ (ExecuteStep /\ Len(codeBuffer) > 0) =>
            /\ Newest(executedBufferHistory') = codeBuffer
            /\ Len(executedBufferHistory) < 100 =>
                  executedBufferHistory' =
                      Append(executedBufferHistory, codeBuffer)
            /\ bufferHistoryPointer' = Len(executedBufferHistory') - 1
            /\ evalCalls' = <<[code |-> JoinLines(codeBuffer),
                               status |-> "pending"]>>
            /\ codeBuffer = <<La, Lb>> =>
                  evalCalls'[1].code = <<"a", "\n", " ", "b">>
            /\ pc' = "run_eval"
       /\ RunEvalDone =>
            /\ codeBuffer' = <<>>
            /\ executedBufferHistory' = executedBufferHistory
            /\ Len(evalCalls') = 1
            /\ evalCalls'[1].code = evalCalls[1].code
            /\ evalCalls'[1].status \in {"ok", "error"}
            /\ bufferHistoryPointer' =
                  IF SigintNotice \in notices
                  THEN -1
                  ELSE Len(executedBufferHistory') - 1
      ]_vars

\* C1 witness: history <<>> and buffer <<La, Lb>> were executed
C1_Witness ==
    /\ pc = "prompt"
    /\ executedBufferHistory = <<<<La, Lb>>>>
    /\ codeBuffer = <<>>
    /\ bufferHistoryPointer = 0
    /\ evalCalls = <<[code |-> <<"a", "\n", " ", "b">>, status |-> "ok"]>>

\* C2: .run with an empty buffer pushes nothing, calls no evaluator, leaves
\* the pointer and the buffer as they were and writes one notice.
C2_RunOnEmptyBuffer ==
    [][(CmdRun /\ codeBuffer = <<>>) =>
            /\ executedBufferHistory' = executedBufferHistory
            /\ bufferHistoryPointer' = bufferHistoryPointer
            /\ codeBuffer' = <<>>
            /\ evalCalls' = <<>>
            /\ pc' = "prompt"
            /\ notices' = {"Buffer is empty. Nothing to execute."}
      ]_vars

\* C2 witness: .run was given with an empty buffer while the history held
\* an entry and the pointer was on it
C2_Witness ==
    /\ line.kind = "line" /\ line.text \in RunLines
    /\ notices = {"Buffer is empty. Nothing to execute."}
    /\ Len(executedBufferHistory) = 1
    /\ bufferHistoryPointer = 0
    /\ codeBuffer = <<>>

\* C3: the history never holds more than 100 entries, and an execute with
\* 100 entries stored removes exactly the oldest: the others move up one
\* place in their order and the executed buffer is the newest.
C3_FifoBounded ==
    [][/\ Len(executedBufferHistory') <= 100
       /\ (ExecuteStep /\ Len(codeBuffer) > 0
                       /\ Len(executedBufferHistory) = 100) =>
            /\ Len(executedBufferHistory') = 100
            /\ \A i \in 1..99 :
                  executedBufferHistory'[i] = executedBufferHistory[i + 1]
            /\ executedBufferHistory'[100] = codeBuffer
            /\ shifted' = executedBufferHistory[1]
      ]_vars

\* C3 witness: a full history whose oldest entry <<Lb>> was evicted and whose
\* former second entry <<La>> is now the oldest
C3_Witness ==
    /\ Len(executedBufferHistory) = 100
    /\ shifted = <<Lb>>
    /\ executedBufferHistory[1] = <<La>>
    /\ executedBufferHistory[2] = <<Lb>>

\* C4: the pointer is -1 or an index of the history, so the position the
\* history prompt shows is between 1 and the history length.
C4_PointerInRange ==
    \/ bufferHistoryPointer = -1
    \/ /\ 0 <= bufferHistoryPointer
       /\ bufferHistoryPointer < Len(executedBufferHistory)
       /\ 1 <= bufferHistoryPointer + 1
       /\ bufferHistoryPointer + 1 <= Len(executedBufferHistory)

\* C4 witness: the pointer is on the older of two entries
C4_Witness ==
    /\ Len(executedBufferHistory) = 2
    /\ bufferHistoryPointer = 0
    /\ pc = "prompt"

\* C5 (as stated): at a prompt with the pointer on a history index, the
\* buffer is a copy of that entry.
C5_SnapshotAsStated ==
    (pc = "prompt" /\ bufferHistoryPointer # -1) =>
        /\ bufferHistoryPointer \in 0..(Len(executedBufferHistory) - 1)
        /\ codeBuffer = executedBufferHistory[bufferHistoryPointer + 1]

\* C5 (amended): at a prompt with the pointer on a history index, the
\* buffer is a copy of that entry, or it is empty and the index is the
\* newest one (the state an execute leaves).
C5_Snapshot ==
    (pc = "prompt" /\ bufferHistoryPointer # -1) =>
        /\ bufferHistoryPointer \in 0..(Len(executedBufferHistory) - 1)
        /\ \/ codeBuffer = executedBufferHistory[bufferHistoryPointer + 1]
           \/ /\ codeBuffer = <<>>
              /\ bufferHistoryPointer = Len(executedBufferHistory) - 1

\* C5 witness: the older of two different entries is being viewed
C5_Witness ==
    /\ pc = "prompt"
    /\ Len(executedBufferHistory) = 2
    /\ executedBufferHistory[1] # executedBufferHistory[2]
    /\ bufferHistoryPointer = 0
    /\ codeBuffer = executedBufferHistory[1]

\* C6: .bhprev/.hp with the pointer at -1 and a non-empty history puts the
\* pointer on the newest index and a copy of the newest entry in the buffer;
\* with an empty history it changes nothing.
C6_PrevFromLive ==
    [][CmdBhprev =>
            /\ (bufferHistoryPointer = -1 /\
                Len(executedBufferHistory) > 0) =>
                  /\ bufferHistoryPointer' = Len(executedBufferHistory) - 1
                  /\ codeBuffer' = Newest(executedBufferHistory)
                  /\ executedBufferHistory' = executedBufferHistory
            /\ Len(executedBufferHistory) = 0 =>
                  UNCHANGED <<codeBuffer, bufferHistoryPointer,
                              executedBufferHistory, pc>>
      ]_vars

\* C6 witness: .hp from live mode landed on the newer of two different
\* entries
C6_Witness ==
    /\ line.kind = "line" /\ line.text \in BhprevLines
    /\ Len(executedBufferHistory) = 2
    /\ executedBufferHistory[1] # executedBufferHistory[2]
    /\ bufferHistoryPointer = 1
    /\ codeBuffer = executedBufferHistory[2]

\* C7: .bhnext/.hn never changes the history; at the newest index it leaves
\* pointer -1 and an empty buffer; at pointer -1 it changes no state; below
\* the newest index it moves the pointer up by one and copies that entry.
C7_Next ==
    [][CmdBhnext =>
            /\ executedBufferHistory' = executedBufferHistory
            /\ bufferHistoryPointer = -1 =>
                  UNCHANGED <<codeBuffer, bufferHistoryPointer, pc>>
            /\ (bufferHistoryPointer # -1 /\
                bufferHistoryPointer = Len(executedBufferHistory) - 1) =>
                  /\ bufferHistoryPointer' = -1
                  /\ codeBuffer' = <<>>
            /\ (bufferHistoryPointer # -1 /\
                bufferHistoryPointer < Len(executedBufferHistory) - 1) =>
                  /\ bufferHistoryPointer' = bufferHistoryPointer + 1
                  /\ codeBuffer' =
                        executedBufferHistory[bufferHistoryPointer + 2]
      ]_vars

\* C7 witness: .hn at the newest index went back to an empty live buffer
C7_Witness ==
    /\ line.kind = "line" /\ line.text \in BhnextLines
    /\ "At the newest history item." \in notices
    /\ Len(executedBufferHistory) = 2
    /\ bufferHistoryPointer = -1
    /\ codeBuffer = <<>>

\* C8: the history changes only by an execute (the buffer is appended, the
\* oldest entry evicted at capacity) or by .bhclear; navigation, typed code
\* lines, .bclear, interrupts and end-of-input leave it as it is.
C8_HistoryFrame ==
    [][/\ \/ executedBufferHistory' = executedBufferHistory
          \/ /\ ExecuteStep
             /\ Len(codeBuffer) > 0
             /\ \/ executedBufferHistory' =
                      Append(executedBufferHistory, codeBuffer)
                \/ /\ Len(executedBufferHistory) = 100
                   /\ executedBufferHistory' =
                         Append(Tail(executedBufferHistory), codeBuffer)
          \/ CmdBhclear /\ executedBufferHistory' = <<>>
       /\ (CmdBhprev \/ CmdBhnext \/ CmdBhload \/ AppendLine \/ CmdBclear
             \/ PromptAborted \/ PromptEof \/ SigInt)
          => executedBufferHistory' = executedBufferHistory
      ]_vars

\* C8 witness: a code line was typed over a loaded snapshot and both history
\* entries are still there
C8_Witness ==
    /\ line.kind = "line" /\ line.text \in CodeInputs
    /\ notices = {"(Exited history view. Started new live buffer)"}
    /\ executedBufferHistory = <<<<La, Lb>>, <<Lb>>>>
    /\ codeBuffer = <<La>>

\* C9: a code line typed while the pointer is not -1 leaves pointer -1, a
\* buffer holding that line alone and the history unchanged; typed while the
\* pointer is -1 it goes to the end of the buffer and nothing else changes.
C9_AppendLine ==
    [][AppendLine =>
            /\ executedBufferHistory' = executedBufferHistory
            /\ bufferHistoryPointer' = -1
            /\ bufferHistoryPointer # -1 => codeBuffer' = <<line'.text>>
            /\ bufferHistoryPointer = -1 =>
                  codeBuffer' = Append(codeBuffer, line'.text)
            /\ UNCHANGED <<pc, shifted>>
      ]_vars

\* C9 witness: Lb was typed while a two-line snapshot was loaded
C9_Witness ==
    /\ line = [kind |-> "line", text |-> Lb]
    /\ notices = {"(Exited history view. Started new live buffer)"}
    /\ Len(executedBufferHistory) >= 1
    /\ bufferHistoryPointer = -1
    /\ codeBuffer = <<Lb>>

\* C10: an interrupt, at the prompt or delivered to the SIGINT listener,
\* never ends the loop and never changes the history; with lines in the
\* buffer or the pointer off -1 it leaves an empty buffer and pointer -1,
\* otherwise it changes no state; after an abort the loop prompts again.
C10_Interrupt ==
    [][/\ (PromptAborted \/ SigInt) =>
            /\ pc' # "exited"
            /\ executedBufferHistory' = executedBufferHistory
            /\ MustClear(codeBuffer, bufferHistoryPointer) =>
                  codeBuffer' = <<>> /\ bufferHistoryPointer' = -1
            /\ ~MustClear(codeBuffer, bufferHistoryPointer) =>
                  UNCHANGED <<codeBuffer, bufferHistoryPointer>>
       /\ PromptAborted => pc' = "prompt"
       /\ SigInt => pc' = pc
      ]_vars

\* C10 witness: Ctrl+C at the prompt cleared a buffer and the loop is at the
\* prompt again
C10_Witness ==
    /\ line.kind = "aborted"
    /\ pc = "prompt"
    /\ notices = {"Code buffer cleared and exited history view by Ctrl+C at prompt."}
    /\ Len(executedBufferHistory) = 2
    /\ codeBuffer = <<>>
    /\ bufferHistoryPointer = -1

\* C11: end-of-input at the prompt never ends the loop and never changes the
\* history: with lines in the buffer or the pointer off -1 it leaves an empty
\* buffer and pointer -1, otherwise it changes no state, and the loop prompts
\* again. The loop ends only by the .exit command or by a prompt error that
\* is not an abort.
C11_EndOfInput ==
    [][/\ PromptEof =>
            /\ pc' = "prompt"
            /\ executedBufferHistory' = executedBufferHistory
            /\ MustClear(codeBuffer, bufferHistoryPointer) =>
                  codeBuffer' = <<>> /\ bufferHistoryPointer' = -1
            /\ ~MustClear(codeBuffer, bufferHistoryPointer) =>
                  UNCHANGED <<codeBuffer, bufferHistoryPointer>>
       /\ (pc # "exited" /\ pc' = "exited") => (CmdExit \/ PromptFailed)
      ]_vars

\* C11 witness: Ctrl+D at the prompt dropped a loaded snapshot and the loop
\* is at the prompt again
C11_Witness ==
    /\ line.kind = "null"
    /\ pc = "prompt"
    /\ notices = {"Code buffer cleared and exited history view by Ctrl+D at prompt."}
    /\ Len(executedBufferHistory) = 2
    /\ codeBuffer = <<>>
    /\ bufferHistoryPointer = -1

\* the text t is a dot, then one or more word characters, then nothing more
\* or whitespace and the rest
DotWord(t) ==
    /\ Len(t) >= 2
    /\ t[1] = "."
    /\ \E n \in 1..(Len(t) - 1) :
          /\ \A k \in 2..(n + 1) : t[k] \in WordChars
          /\ \/ Len(t) = n + 1
             \/ Len(t) > n + 1 /\ t[n + 2] \in Whitespace

\* the name in such a text: the word characters after the dot
DotWordName(t) ==
    LET n == CHOOSE m \in 1..(Len(t) - 1) :
                 /\ \A k \in 2..(m + 1) : t[k] \in WordChars
                 /\ \/ Len(t) = m + 1
                    \/ Len(t) > m + 1 /\ t[m + 2] \in Whitespace
    IN  SubSeq(t, 2, n + 1)

\* the input lines of that form whose name is no key of `commands`
UnknownDotWordLines ==
    {l \in InputLines :
        DotWord(Trim(l)) /\ DotWordName(Trim(l)) \notin CommandNames}

\* C12: a line whose trimmed text is a dot and word characters, with or
\* without whitespace and arguments after them, and whose name is no known
\* command is discarded: buffer, pointer and history stay as they are, the
\* error is reported and the loop prompts again.
C12_UnknownDiscarded ==
    [][(/\ pc = "prompt"
        /\ line'.kind = "line"
        /\ line'.text \in UnknownDotWordLines
        /\ ~SigInt)
       => /\ UNCHANGED <<codeBuffer, bufferHistoryPointer,
                         executedBufferHistory, pc>>
          /\ notices' = {"Unknown command. Not added to buffer."}
      ]_vars

\* C12 witness: ".foo a" was entered while a line was in the buffer
C12_Witness ==
    /\ line = [kind |-> "line", text |-> DotArgs(N_foo, La)]
    /\ line.text \in UnknownDotWordLines
    /\ notices = {"Unknown command. Not added to buffer."}
    /\ codeBuffer = <<La>>
    /\ Len(executedBufferHistory) = 1
    /\ bufferHistoryPointer = -1

\* the command .do is in flight: the file is being read or evaluated
DoInFlight == pc \in {"do_read", "do_eval"}

\* C13 (as stated): from the moment .do is given until it returns, whether
\* the read or the evaluation succeeds or fails, buffer, history and pointer
\* keep the values they had before the command.
C13_DoBypassAsStated ==
    [][(CmdDo \/ DoInFlight) =>
            UNCHANGED <<codeBuffer, executedBufferHistory,
                        bufferHistoryPointer>>
      ]_vars

\* C13 (amended): the steps of .do itself (its dispatch, the end of the file
\* read, the end of the evaluation) leave buffer, history and pointer as they
\* are, the evaluator gets the file content and the history never changes
\* while .do is in flight; the buffer and the pointer change during the
\* command only when the SIGINT listener runs, which empties the buffer and
\* puts the pointer at -1.
C13_DoBypass ==
    [][/\ (CmdDo \/ DoReadDone \/ DoEvalDone) =>
            UNCHANGED <<codeBuffer, executedBufferHistory,
                        bufferHistoryPointer>>
       /\ (DoReadDone /\ pc' = "do_eval") =>
            /\ Len(evalCalls') = 1
            /\ evalCalls'[1].code \in FileContents
       /\ DoInFlight =>
            /\ executedBufferHistory' = executedBufferHistory
            /\ \/ UNCHANGED <<codeBuffer, bufferHistoryPointer>>
               \/ /\ SigInt
                  /\ codeBuffer' = <<>>
                  /\ bufferHistoryPointer' = -1
      ]_vars

\* C13 witness: .do ran a file whose evaluation failed while a line was in
\* the buffer and the history held an entry
C13_Witness ==
    /\ pc = "prompt"
    /\ line.kind = "line" /\ line.text \in DoLines
    /\ evalCalls = <<[code |-> <<"a", "\n", "b">>, status |-> "error"]>>
    /\ SigintNotice \notin notices
    /\ codeBuffer = <<La>>
    /\ Len(executedBufferHistory) = 1
    /\ bufferHistoryPointer = -1

\* C14: when the evaluator settles, with a failure as with a success, the
\* loop is at the prompt again with an empty buffer, the history and the
\* pointer are what the execute left, and the executed buffer is the newest
\* history entry; a failed evaluation of a file does not end the loop either.
C14_EvalFailureContinues ==
    [][/\ RunEvalDone =>
            /\ pc' = "prompt"
            /\ codeBuffer' = <<>>
            /\ executedBufferHistory' = executedBufferHistory
            /\ bufferHistoryPointer' = bufferHistoryPointer
            /\ evalCalls'[1].status \in {"ok", "error"}
            /\ JoinLines(Newest(executedBufferHistory')) = evalCalls'[1].code
       /\ DoEvalDone => pc' = "prompt"
      ]_vars

\* C14 witness: the evaluation of an executed buffer failed, the loop is at
\* the prompt and the buffer is in the history
C14_Witness ==
    /\ pc = "prompt"
    /\ line.kind = "line" /\ line.text \in RunLines
    /\ evalCalls = <<[code |-> <<"a", "\n", " ", "b">>, status |-> "error"]>>
    /\ executedBufferHistory = <<<<La, Lb>>>>
    /\ codeBuffer = <<>>
    /\ bufferHistoryPointer = 0

\* C15 (as stated): in code mode a failed evaluation of the code ends the
\* process with an exit code other than 0, and a successful one with 0.
C15_CodeModeExitAsStated ==
    (isCodeMode /\ ~args.help /\ pc = "exited" /\ evalCalls # <<>>) =>
        /\ evalCalls[1].status = "error" => exitCode # <<0>>
        /\ evalCalls[1].status = "ok" => exitCode = <<0>>

\* prepareSpecifierForImport has settled for the specifier of the command line
Settled == outcome.state # "none"

\* the import map has the specifier s as a key of its own
MapsKey(map, s) == map.present /\ s \in DOMAIN map.imports

\* the import map maps s to a text that is not empty
MapsToText(map, s) == MapsKey(map, s) /\ map.imports[s] # <<>>

\* what the text t resolves to on its own, as the specifier that stands for
\* the original specifier s: unchanged when it is an absolute URL, tagged with
\* jsr: when it has the shorthand prefix, refused with s in the message
\* otherwise
Alone(t, s) ==
    IF ParsesAsURL(t) THEN Resolved(t)
    ELSE IF StartsWith(t, S_std) THEN Resolved(S_jsr \o t)
    ELSE Unresolvable(s)

\* C16 (as stated): a specifier that is an absolute URL is returned
\* unchanged, whatever the import map.
C16_UrlUnchangedAsStated ==
    (Settled /\ ParsesAsURL(args.specifier)) =>
        outcome = Resolved(args.specifier)

\* C16 (amended): a specifier that is an absolute URL is returned unchanged
\* when the import map is absent or does not map it to a text; when the map
\* maps it to a text t, the result is what t resolves to on its own.
C16_UrlUnchanged ==
    (Settled /\ ParsesAsURL(args.specifier)) =>
        IF MapsToText(activeImportMap, args.specifier)
        THEN outcome = Alone(activeImportMap.imports[args.specifier],
                             args.specifier)
        ELSE outcome = Resolved(args.specifier)

\* C16 witness: a URL was resolved to itself under an import map with other
\* keys, and saved under the name given
C16_Witness ==
    /\ pc = "exited"
    /\ exitCode = <<0>>
    /\ args.specifier = Sp_http
    /\ activeImportMap.present
    /\ DOMAIN activeImportMap.imports = {Sp_bare, Sp_std}
    /\ outcome = Resolved(Sp_http)
    /\ args.name \in DOMAIN LoadModuleMap(moduleMapFile).map
    /\ LoadModuleMap(moduleMapFile).map[args.name].url = Sp_http

\* C17 (as stated): when the import map maps the specifier to a text that is
\* neither an absolute URL nor a jsr: or npm: text, resolution fails with the
\* unresolvable-specifier error.
C17_OneLevelAsStated ==
    (/\ Settled
     /\ MapsKey(activeImportMap, args.specifier)
     /\ ~ParsesAsURL(activeImportMap.imports[args.specifier])
     /\ ~StartsWith(activeImportMap.imports[args.specifier], S_jsr)
     /\ ~StartsWith(activeImportMap.imports[args.specifier], S_npm))
    => outcome = Unresolvable(args.specifier)

\* C17 (amended): when the import map maps the specifier to a text that is
\* not empty, is no absolute URL and does not begin with the shorthand prefix
\* @std/, resolution fails with the unresolvable-specifier error, also when
\* that text is itself a key of the map; a text with the shorthand prefix is
\* tagged with jsr: and returned.
C17_OneLevel ==
    (Settled /\ MapsToText(activeImportMap, args.specifier)) =>
        LET t == activeImportMap.imports[args.specifier]
        IN  /\ (~ParsesAsURL(t) /\ ~StartsWith(t, S_std)) =>
                  outcome = Unresolvable(args.specifier)
            /\ (~ParsesAsURL(t) /\ StartsWith(t, S_std)) =>
                  outcome = Resolved(S_jsr \o t)

\* C17 witness: the bare specifier is mapped to a bare text which the map
\* maps on to an npm: text; resolution failed and main exited with 1
C17_Witness ==
    /\ pc = "exited"
    /\ exitCode = <<1>>
    /\ args.specifier = Sp_bare
    /\ activeImportMap.present
    /\ DOMAIN activeImportMap.imports = {Sp_bare, Sp_other}
    /\ activeImportMap.imports[Sp_bare] = Sp_other
    /\ activeImportMap.imports[Sp_other] = Sp_npm
    /\ outcome = Unresolvable(Sp_bare)

\* C18 (as stated): a specifier with the shorthand prefix @std/ resolves to
\* jsr: followed by the specifier, whatever the import map.
C18_ShorthandAsStated ==
    (Settled /\ StartsWith(args.specifier, S_std)) =>
        outcome = Resolved(S_jsr \o args.specifier)

\* C18 (amended): a specifier with the shorthand prefix @std/ resolves to
\* jsr: followed by the specifier when the import map is absent or does not
\* map it to a text; when the map maps it to a text t, the result is what t
\* resolves to on its own.
C18_Shorthand ==
    (Settled /\ StartsWith(args.specifier, S_std)) =>
        IF MapsToText(activeImportMap, args.specifier)
        THEN outcome = Alone(activeImportMap.imports[args.specifier],
                             args.specifier)
        ELSE outcome = Resolved(S_jsr \o args.specifier)

\* C18 witness: @std/f was resolved to jsr:@std/f under an import map that
\* has it as a key with an empty text, and saved
C18_Witness ==
    /\ pc = "exited"
    /\ exitCode = <<0>>
    /\ args.specifier = Sp_std
    /\ MapsKey(activeImportMap, Sp_std)
    /\ outcome = Resolved(<<"j", "s", "r", ":", "@", "s", "t", "d", "/", "f">>)
    /\ args.name \in DOMAIN LoadModuleMap(moduleMapFile).map
    /\ LoadModuleMap(moduleMapFile).map[args.name].url = outcome.value

\* the text is @, a scope, a slash and a package name
Scoped(t) ==
    /\ Len(t) >= 4
    /\ t[1] = "@"
    /\ \E i \in 3..(Len(t) - 1) :
          /\ t[i] = "/"
          /\ \A k \in 2..(i - 1) : t[k] # "/"

\* C19 (as stated): without an import map a specifier @scope/pkg resolves to
\* jsr:@scope/pkg for any scope, and a specifier that begins with jsr: or
\* npm: is returned unchanged.
C19_ScopedAsStated ==
    (Settled /\ ~activeImportMap.present) =>
        /\ Scoped(args.specifier) =>
              outcome = Resolved(S_jsr \o args.specifier)
        /\ (StartsWith(args.specifier, S_jsr)
              \/ StartsWith(args.specifier, S_npm)) =>
              outcome = Resolved(args.specifier)

\* the specifier is bare: no URL, no shorthand
Bare(t) == ~ParsesAsURL(t) /\ ~StartsWith(t, S_std)

\* C20 (as stated): when resolution fails the message of the error holds the
\* specifier as the caller gave it, and a bare specifier without an import
\* map always fails in this way.
C20_OriginalInMessageAsStated ==
    /\ (Settled /\ outcome.state = "rejected") =>
          outcome.message[2] = args.specifier
    /\ (Settled /\ ~activeImportMap.present /\ Bare(args.specifier)) =>
          outcome = Unresolvable(args.specifier)

(***************************************************************************)
(* The module map on disk: add, remove, save and load                      *)
(***************************************************************************)

\* names and specifiers with the characters JSON.stringify escapes
Name_q == <<"q", Quote>>
Url_b == <<"n", "p", "m", ":", Backslash, "\n">>

\* the maps handed to saveModuleMap
StoredMaps ==
    UNION {{[n \in K |-> [name |-> n, url |-> u[n]]] :
               u \in [K -> {Sp_npm, Url_b}]} :
           K \in SUBSET {Name_m, Name_n, Name_q}}

\* a caller of the store holds a map and either saves it and loads it back,
\* or loads what the file holds
InitStore ==
    /\ codeBuffer = <<>>
    /\ executedBufferHistory = <<>>
    /\ bufferHistoryPointer = -1
    /\ pc \in {"store_save", "store_load"}
    /\ line = [kind |-> "none", text |-> <<>>]
    /\ notices = {}
    /\ evalCalls = <<>>
    /\ shifted = <<>>
    /\ exitCode = <<>>
    /\ args = NoArgs
    /\ activeImportMap = NoImportMap
    /\ moduleMapFile \in ModuleMapFiles
    /\ currentMap \in StoredMaps
    /\ outcome = NotCalled
    /\ returned = NotReturned
    /\ imports = NoImports
    /\ pendingOps = <<>>
    /\ tty = NoTty

\* mutation of StoreSave: the text is appended to the file
StoreSave_Appends ==
    /\ pc = "store_save"
    /\ IF moduleMapFile.kind = "nodir"
       THEN /\ pc' = "store_failed"
            /\ UNCHANGED <<moduleMapFile, notices>>
       ELSE /\ pc' = "store_reload"
            /\ \/ /\ moduleMapFile' =
                        FileWith(moduleMapFile.content \o Stringify(currentMap))
                  /\ UNCHANGED notices
               \/ /\ notices' = notices \cup {"Error saving module map"}
                  /\ UNCHANGED moduleMapFile
    /\ UNCHANGED <<replVars, evalCalls, exitCode, args, activeImportMap,
                   currentMap, outcome, ioVars>>

\* saveModuleMap(currentMap): ensureDirSync throws to the caller, or the file
\* is overwritten with the text of the map, or the write fails and is logged
StoreSave ==
    /\ pc = "store_save"
    /\ IF moduleMapFile.kind = "nodir"
       THEN /\ pc' = "store_failed"
            /\ UNCHANGED <<moduleMapFile, notices>>
       ELSE /\ pc' = "store_reload"
            /\ \/ /\ moduleMapFile' = Stringified(currentMap)
                  /\ UNCHANGED notices
               \/ /\ notices' = notices \cup {"Error saving module map"}
                  /\ UNCHANGED moduleMapFile
    /\ UNCHANGED <<replVars, evalCalls, exitCode, args, activeImportMap,
                   currentMap, outcome, ioVars>>

\* loadModuleMap() settles: it throws to the caller or returns
StoreLoad ==
    /\ pc \in {"store_load", "store_reload"}
    /\ LET loaded == LoadModuleMap(moduleMapFile)
       IN  /\ returned' = loaded
           /\ notices' = notices \cup LoadNotices(loaded, <<>>)
           /\ pc' = IF loaded.kind = "thrown" THEN "store_failed"
                    ELSE IF pc = "store_load" THEN "store_list"
                    ELSE "store_relist"
    /\ UNCHANGED <<replVars, evalCalls, exitCode, mainVars, imports,
                   pendingOps, tty>>

\* listModulesInMap() settles
StoreList ==
    /\ pc \in {"store_list", "store_relist"}
    /\ LET loaded == LoadModuleMap(moduleMapFile)
       IN  /\ returned' = loaded
           /\ notices' = notices \cup LoadNotices(loaded, <<>>)
           /\ pc' = IF loaded.kind = "thrown" THEN "store_failed"
                    ELSE IF pc = "store_list" THEN "store_listed"
                    ELSE "store_relisted"
    /\ UNCHANGED <<replVars, evalCalls, exitCode, mainVars, imports,
                   pendingOps, tty>>

NextStore ==
    \/ StoreSave
    \/ StoreLoad
    \/ StoreList

SpecStore == InitStore /\ [][NextStore]_vars

\* C21: when prepareSpecifierForImport rejects inside addModuleToMap, the
\* call fails with the error the resolver threw, main exits with 1, and the
\* module map file is what it was before the call.
C21_AddAtomic ==
    [][(pc = "add_load" /\ outcome'.state = "rejected")
         => /\ outcome' = PrepareSpecifierForImport(args.specifier,
                                                    activeImportMap)
            /\ "Unhandled error in main:" \in notices'
            /\ pc' = "exited"
            /\ exitCode' = <<1>>
            /\ moduleMapFile' = moduleMapFile]_vars

\* C21 witness: adding under a name the file already holds failed on a bare
\* specifier, and the file still holds its one entry
C21_Witness ==
    /\ pc = "exited"
    /\ exitCode = <<1>>
    /\ args.command = "add"
    /\ args.name = Name_m
    /\ outcome = Unresolvable(args.specifier)
    /\ moduleMapFile = Stringified(WithEntry(EmptyMap, Name_m, Sp_npm))

\* C22 (as stated): after addModuleToMap has returned, the persisted map
\* holds exactly one entry for the name, with the resolved specifier; every
\* other entry is as it was, and the number of entries grew by one exactly
\* when the name was absent.
C22_UniqueNamesAsStated ==
    [][pc = "add_save" =>
         LET before == LoadModuleMap(moduleMapFile).map
             after == LoadModuleMap(moduleMapFile').map
         IN  /\ args.name \in DOMAIN after
             /\ after[args.name] = [name |-> args.name, url |-> outcome.value]
             /\ \A n \in (DOMAIN before \cup DOMAIN after) \ {args.name} :
                   /\ n \in DOMAIN before
                   /\ n \in DOMAIN after
                   /\ after[n] = before[n]
             /\ Cardinality(DOMAIN after) =
                   Cardinality(DOMAIN before)
                      + (IF args.name \in DOMAIN before THEN 0 ELSE 1)]_vars

\* C23 (as stated): removeModuleFromMap returns true exactly when the name
\* was in the persisted map; afterwards the name is absent and every other
\* entry is as it was; for an absent name it returns false and the file is
\* left as it was.
C23_RemoveAsStated ==
    [][(pc \in {"remove_load", "remove_save"}) =>
         LET before == LoadModuleMap(moduleMapFile).map
             after == LoadModuleMap(moduleMapFile').map
         IN  /\ (pc = "remove_load" /\ args.name \in DOMAIN before) =>
                   pc' = "remove_save"
             /\ (pc = "remove_load" /\ args.name \notin DOMAIN before) =>
                   /\ pc' = "exited"
                   /\ "Module not found in map." \in notices'
                   /\ moduleMapFile' = moduleMapFile
             /\ pc = "remove_save" =>
                   /\ "Module removed from map." \in notices'
                   /\ after = WithoutEntry(before, args.name)]_vars

Malformed(file) == file.kind = "file" /\ ~JsonParse(file.content).ok

\* C25 (as stated): loadModuleMap never fails to its caller and always
\* returns a module map: the empty map when the file is missing, empty,
\* blank or malformed.
C25_LoadTotalAsStated ==
    /\ pc # "store_failed"
    /\ (pc \in {"store_list", "store_relist"}) =>
          /\ returned.kind = "map"
          /\ (moduleMapFile.kind = "missing"
                \/ Trim(moduleMapFile.content) = <<>>
                \/ Malformed(moduleMapFile)) => returned.map = EmptyMap

(***************************************************************************)
(* The session: .import, the start of the REPL, the terminal handles       *)
(***************************************************************************)

\* what listModulesInMap() returns in the current state
Listed == LoadModuleMap(moduleMapFile)

C27_ImportPersistsAsStated ==
    [][(pc = "import_load" /\ pc' = "prompt") =>
         LET name == ImportName(line.text)
             url == ImportUrl(line.text)
             after == LoadModuleMap(moduleMapFile')
         IN  /\ name \in DOMAIN imports'
             /\ imports'[name] = url
             /\ after.kind = "map"
             /\ name \in DOMAIN after.map
             /\ after.map[name].url = url]_vars

\* the evaluations, imports and file operations that have not settled
InFlight ==
    Cardinality({i \in 1..Len(evalCalls) : evalCalls[i].status = "pending"})
       + Len(pendingOps)

\* C30: at most one evaluation, import or file operation is in flight, and
\* while one is in flight the loop is not at the prompt, where alone a line
\* is read and a command dispatched.
C30_Serialized ==
    /\ InFlight <= 1
    /\ pc \in {"prompt", "exited"} => InFlight = 0

\* C30 witness: the import of a .import command is in flight and the loop
\* waits for it
C30_Witness ==
    /\ pc = "import_module"
    /\ InFlight = 1
    /\ pendingOps = <<PendingImport(<<"m">>, <<"h", "t", "t", "p", ":", "/", "/", "a">>)>>

\* C28 (as stated): at the start of the REPL the entries of the persistent
\* map are imported one after the other; an import that succeeds binds the
\* module at _imports[name], one that fails binds nothing, and in both cases
\* main goes on with the next entry and, after the last, with the loop.
C28_StartImportsAsStated ==
    [][pc = "repl_import" =>
         LET current == pendingOps[1]
             following == NextImport(currentMap, current.name)
         IN  /\ imports' \in {imports,
                              Bound(imports, current.name, current.url)}
             /\ pendingOps' = following
             /\ pc' = IF following = <<>> THEN "repl_start"
                      ELSE "repl_import"]_vars

\* C29 (as stated): no path ends the process with a direct-terminal handle
\* still open.
C29_HandleClosedAsStated == pc = "exited" => tty.open = {}

(***************************************************************************)
(* Interrupts in flight, .import errors, history commands                  *)
(***************************************************************************)

\* an evaluation or an import has been started and has not settled
CallInFlight == pc \in {"run_eval", "do_eval", "import_module"}

\* C31 (as stated): an interrupt delivered while an evaluation or an import
\* is in flight changes neither buffer, pointer nor history and does not
\* cancel the call, so that when .run's evaluation settles the pointer is
\* at the newest history index.
C31_InterruptInFlightAsStated ==
    [][/\ (SigInt /\ CallInFlight) =>
            UNCHANGED <<codeBuffer, bufferHistoryPointer,
                        executedBufferHistory, evalCalls, pendingOps, pc>>
       /\ RunEvalDone =>
            bufferHistoryPointer' = Len(executedBufferHistory') - 1
      ]_vars

\* C31 (amended): an interrupt delivered while an evaluation or an import is
\* in flight does not cancel the call and does not change the history, but
\* the listener runs at once: with lines in the buffer or the pointer off -1
\* it empties the buffer and puts the pointer at -1, otherwise it changes
\* neither. The settling of the call leaves history and pointer as they are
\* then, .run's empties the buffer, .do's and .import's leave it.
C31_InterruptInFlight ==
    [][/\ (SigInt /\ CallInFlight) =>
            /\ UNCHANGED <<executedBufferHistory, evalCalls, pendingOps, pc>>
            /\ InFlight' = 1
            /\ MustClear(codeBuffer, bufferHistoryPointer) =>
                  /\ codeBuffer' = <<>>
                  /\ bufferHistoryPointer' = -1
                  /\ SigintNotice \in notices'
            /\ ~MustClear(codeBuffer, bufferHistoryPointer) =>
                  UNCHANGED <<codeBuffer, bufferHistoryPointer>>
       /\ (RunEvalDone \/ DoEvalDone \/ ImportSettled) =>
            /\ UNCHANGED <<executedBufferHistory, bufferHistoryPointer>>
            /\ InFlight = 1
       /\ RunEvalDone => codeBuffer' = <<>>
       /\ (DoEvalDone \/ ImportSettled) => codeBuffer' = codeBuffer
      ]_vars

\* C31 witness: .run is still waiting for the evaluator after an interrupt
\* has put the pointer back to -1
C31_Witness ==
    /\ pc = "run_eval"
    /\ InFlight = 1
    /\ SigintNotice \in notices
    /\ Len(executedBufferHistory) = 2
    /\ bufferHistoryPointer = -1
    /\ codeBuffer = <<>>


\* the entry commands[".import"] hands to addModuleToMap: { name, url }
ImportEntry(l) == [name |-> ImportName(l), url |-> ImportUrl(l)]

\* addModuleToMap(entry) throws: the directory cannot be made, the lookup in
\* a null map fails, entry.specifier is undefined, or the specifier is
\* rejected
AddModuleToMapThrows(file, entry) ==
    LET loaded == LoadModuleMap(file)
    IN  \/ loaded.kind # "map"
        \/ "specifier" \notin DOMAIN entry
        \/ PrepareSpecifierForImport(entry.specifier, NoImportMap).state
              # "resolved"

\* C32 (as stated): an .import that ends by reporting an error (usage, name
\* or URL rejected, import failed, adding to the map failed) leaves _imports
\* and the persistent map as they were before the command; a module bound
\* ahead of an addModuleToMap that throws would end in the error report
\* with _imports changed.
C32_ImportErrorAsStated ==
    [][/\ (CmdImport /\ pc' = "prompt") =>
            UNCHANGED <<imports, moduleMapFile>>
       /\ (ImportSettled /\ "Error importing module" \in notices') =>
            UNCHANGED <<imports, moduleMapFile>>
       /\ (/\ ImportSettled
           /\ pc' = "import_load"
           /\ AddModuleToMapThrows(moduleMapFile', ImportEntry(line.text))) =>
            imports' = imports
       /\ (ImportMapLoaded /\ "Error importing module" \in notices') =>
            UNCHANGED <<imports, moduleMapFile>>
      ]_vars


\* the whole text is a decimal integer: an optional sign, then digits only
IsDecimal(t) ==
    /\ t # <<>>
    /\ LET body == IF Head(t) \in {"-", "+"} THEN Tail(t) ELSE t
       IN  /\ body # <<>>
           /\ \A i \in 1..Len(body) : body[i] \in Digits

C34_ClearHistory ==
    [][/\ CmdBhclear =>
            /\ executedBufferHistory' = <<>>
            /\ codeBuffer' = <<>>
            /\ bufferHistoryPointer' = -1
       /\ (/\ line.kind = "line"
           /\ line.text \in BhclearLines
           /\ CmdBhprev \/ CmdBhnext) =>
            /\ UNCHANGED <<codeBuffer, bufferHistoryPointer,
                           executedBufferHistory>>
            /\ notices' = {"No history available."}
      ]_vars

\* .bhclear has just run: the prompt that follows sees the cleared state
C34_Witness ==
    /\ pc = "prompt"
    /\ line.kind = "line" /\ line.text \in BhclearLines
    /\ notices = {"Executed buffer history cleared."}
    /\ executedBufferHistory = <<>>
    /\ codeBuffer = <<>>
    /\ bufferHistoryPointer = -1


\* C35 (as stated): saveModuleMap never fails its caller: either the file
\* holds the text of the map, or the failure is logged, the call completes
\* and the file is what it was, which is what a later load reads.
C35_WriteFailureAsStated ==
    [][StoreSave =>
         /\ pc' = "store_reload"
         /\ \/ moduleMapFile' = Stringified(currentMap)
            \/ /\ "Error saving module map" \in notices'
               /\ UNCHANGED moduleMapFile
               /\ LoadModuleMap(moduleMapFile') = LoadModuleMap(moduleMapFile)
      ]_vars


\* the loop is back at the prompt after an execute that called the evaluator
JustExecuted ==
    /\ pc = "prompt"
    /\ line.kind = "line"
    /\ line.text \in RunLines \cup BlankInputs
    /\ evalCalls # <<>>

\* C36 (as stated): right after a non-empty buffer has been executed, the
\* first .bhprev loads the buffer just executed, the newest history entry,
\* whatever the length of the history.
C36_PrevAfterExecuteAsStated ==
    [][(JustExecuted /\ CmdBhprev) =>
         /\ codeBuffer' = Newest(executedBufferHistory)
         /\ bufferHistoryPointer' = Len(executedBufferHistory) - 1
      ]_vars

\* C36 (amended): right after a non-empty buffer has been executed, the
\* first .bhprev loads the buffer just executed only when it is the one
\* entry of the history, or when an interrupt has put the pointer back to
\* -1; with two entries or more it loads the entry before the newest one.
C36_PrevAfterExecute ==
    [][(JustExecuted /\ CmdBhprev) =>
         LET n == Len(executedBufferHistory)
         IN  /\ n >= 1
             /\ bufferHistoryPointer \in {-1, n - 1}
             /\ IF n = 1 \/ bufferHistoryPointer = -1
                THEN /\ codeBuffer' = Newest(executedBufferHistory)
                     /\ bufferHistoryPointer' = n - 1
                ELSE /\ codeBuffer' = executedBufferHistory[n - 1]
                     /\ bufferHistoryPointer' = n - 2
      ]_vars

\* .bhprev has loaded the older of two different entries
C36_Witness ==
    /\ pc = "prompt"
    /\ line.kind = "line" /\ line.text \in BhprevLines
    /\ Len(executedBufferHistory) = 2
    /\ executedBufferHistory[1] # executedBufferHistory[2]
    /\ bufferHistoryPointer = 0
    /\ codeBuffer = executedBufferHistory[1]
    /\ "Already at the oldest history item." \notin notices


\* the buffer is the unedited copy of the history entry the pointer is on
ViewingSnapshot ==
    /\ bufferHistoryPointer \in 0..(Len(executedBufferHistory) - 1)
    /\ codeBuffer = executedBufferHistory[bufferHistoryPointer + 1]

\* the newest history entry is a second copy of an older one
NewestIsCopy ==
    /\ Len(executedBufferHistory) >= 2
    /\ \E i \in 1..(Len(executedBufferHistory) - 1) :
          executedBufferHistory[i] = Newest(executedBufferHistory)

\* C37 (as stated): executing the unedited snapshot of history[i] appends a
\* new newest entry equal to history[i] and keeps the original (below
\* capacity nothing is evicted); when the evaluation of the copy settles
\* the pointer is at the newest index.
C37_ReexecuteAsStated ==
    [][/\ (ExecuteStep /\ ViewingSnapshot) =>
            /\ Newest(executedBufferHistory') =
                  executedBufferHistory[bufferHistoryPointer + 1]
            /\ Len(executedBufferHistory) < HistoryCapacity =>
                  executedBufferHistory' =
                      Append(executedBufferHistory,
                             executedBufferHistory[bufferHistoryPointer + 1])
       /\ (RunEvalDone /\ NewestIsCopy) =>
            bufferHistoryPointer' = Len(executedBufferHistory') - 1
      ]_vars

\* C37 (amended): executing the unedited snapshot of history[i] appends a
\* new newest entry equal to history[i], keeps the original (below capacity
\* nothing is evicted) and puts the pointer on the newest index; when the
\* evaluation of the copy settles the pointer is still there, unless the
\* SIGINT listener ran meanwhile, and then it is -1.
C37_Reexecute ==
    [][/\ (ExecuteStep /\ ViewingSnapshot) =>
            /\ Newest(executedBufferHistory') =
                  executedBufferHistory[bufferHistoryPointer + 1]
            /\ Len(executedBufferHistory) < HistoryCapacity =>
                  executedBufferHistory' =
                      Append(executedBufferHistory,
                             executedBufferHistory[bufferHistoryPointer + 1])
            /\ bufferHistoryPointer' = Len(executedBufferHistory') - 1
       /\ (RunEvalDone /\ NewestIsCopy) =>
            /\ UNCHANGED executedBufferHistory
            /\ bufferHistoryPointer' =
                  IF SigintNotice \in notices
                  THEN -1
                  ELSE Len(executedBufferHistory') - 1
      ]_vars

\* the one entry of the history was loaded and executed again
C37_Witness ==
    /\ pc = "prompt"
    /\ line.kind = "line" /\ line.text \in RunLines \cup BlankInputs
    /\ Len(executedBufferHistory) = 2
    /\ executedBufferHistory[1] = executedBufferHistory[2]
    /\ Len(evalCalls) = 1 /\ evalCalls[1].status = "ok"
    /\ bufferHistoryPointer = 1
    /\ codeBuffer = <<>>


\* a line the loop pushes to the buffer: not blank once trimmed, and not
\* matching the command pattern
IsCodeLine(l) == Trim(l) # <<>> /\ ~CommandMatches(Trim(l))

\* C38: every history entry holds at least one line, and every line of the
\* buffer and of every history entry is non-blank once trimmed and does not
\* match the command pattern.
C38_LinesAreCode ==
    /\ \A i \in 1..Len(codeBuffer) : IsCodeLine(codeBuffer[i])
    /\ \A e \in 1..Len(executedBufferHistory) :
          /\ Len(executedBufferHistory[e]) >= 1
          /\ \A i \in 1..Len(executedBufferHistory[e]) :
                IsCodeLine(executedBufferHistory[e][i])

\* two buffers were executed and a third one is being typed
C38_Witness ==
    /\ pc = "prompt"
    /\ Len(executedBufferHistory) = 2
    /\ executedBufferHistory[1] # executedBufferHistory[2]
    /\ bufferHistoryPointer = -1
    /\ Len(codeBuffer) = 2


(***************************************************************************)
(* Two addModuleToMap calls on one file (src/module_map.ts)                *)
(***************************************************************************)

\* the names and the specifiers the two calls are given
RaceNames == {Name_m, Name_n, Name_q}
RaceSpecifiers == {Sp_npm, Sp_http}

\* a call of addModuleToMap({ name, specifier }) that awaits loadModuleMap;
\* `map` is its local currentMap
RaceCall(name, specifier) ==
    [op |-> "addModuleToMap", name |-> name, url |-> specifier,
     stage |-> "load", map |-> EmptyMap]

\* two calls for different names are started, by two processes or by one
\* caller that awaits neither, on any of the files
InitRace ==
    /\ codeBuffer = <<>>
    /\ executedBufferHistory = <<>>
    /\ bufferHistoryPointer = -1
    /\ pc = "race"
    /\ line = [kind |-> "none", text |-> <<>>]
    /\ notices = {}
    /\ evalCalls = <<>>
    /\ shifted = <<>>
    /\ exitCode = <<>>
    /\ args = NoArgs
    /\ activeImportMap = NoImportMap
    /\ moduleMapFile \in ModuleMapFiles
    /\ currentMap = EmptyMap
    /\ outcome = NotCalled
    /\ returned = NotReturned
    /\ imports = NoImports
    /\ \E n1 \in RaceNames, n2 \in RaceNames,
          s1 \in RaceSpecifiers, s2 \in RaceSpecifiers :
          /\ n1 # n2
          /\ pendingOps = <<RaceCall(n1, s1), RaceCall(n2, s2)>>
    /\ tty = NoTty

\* loadModuleMap settles in call k: what it throws, and what
\* prepareSpecifierForImport rejects, leaves addModuleToMap; else the entry
\* is set in the local map and saveModuleMap is awaited
RaceLoaded ==
    \E k \in 1..Len(pendingOps) :
        /\ pendingOps[k].stage = "load"
        /\ LET call == pendingOps[k]
               loaded == LoadModuleMap(moduleMapFile)
               resolved == PrepareSpecifierForImport(call.url, NoImportMap)
           IN  IF loaded.kind # "map" \/ resolved.state # "resolved"
               THEN /\ pendingOps' =
                          [pendingOps EXCEPT ![k].stage = "thrown"]
                    /\ notices' = notices \cup
                          (IF loaded.logged THEN {"Error loading module map"}
                           ELSE {})
               ELSE /\ pendingOps' =
                          [pendingOps EXCEPT
                              ![k].stage = "save",
                              ![k].map = WithEntry(loaded.map, call.name,
                                                   resolved.value)]
                    /\ notices' = notices \cup LoadNotices(loaded, call.name)
        /\ UNCHANGED <<replVars, evalCalls, exitCode, mainVars, returned,
                       imports, tty, pc>>

\* saveModuleMap settles in call k: the file is overwritten with the text of
\* the local map, or the write fails and is logged
RaceSaved ==
    \E k \in 1..Len(pendingOps) :
        /\ pendingOps[k].stage = "save"
        /\ \/ /\ moduleMapFile' = Stringified(pendingOps[k].map)
              /\ pendingOps' = [pendingOps EXCEPT ![k].stage = "saved"]
              /\ UNCHANGED notices
           \/ /\ pendingOps' = [pendingOps EXCEPT ![k].stage = "unsaved"]
              /\ notices' = notices \cup {"Error saving module map"}
              /\ UNCHANGED moduleMapFile
        /\ UNCHANGED <<replVars, evalCalls, exitCode, args, activeImportMap,
                       currentMap, outcome, returned, imports, tty, pc>>

NextRace ==
    \/ RaceLoaded
    \/ RaceSaved

SpecRace == InitRace /\ [][NextRace]_vars

\* C39 (as stated): when the two calls have both loaded, set their entry and
\* written the file, the file holds both names.
C39_NoLostUpdateAsStated ==
    (/\ pc = "race"
     /\ \A k \in 1..Len(pendingOps) : pendingOps[k].stage = "saved") =>
        LET after == LoadModuleMap(moduleMapFile)
        IN  /\ after.kind = "map"
            /\ \A k \in 1..Len(pendingOps) :
                  pendingOps[k].name \in DOMAIN after.map


\* how many times close() was called on handle h
CloseCalls(t, h) == Cardinality({i \in 1..Len(t.closes) : t.closes[i] = h})

\* C40 (as stated): on the way out closeTtyResources calls close() once on
\* each handle the prompt holds, once too when reader and writer are the
\* same /dev/tty handle, and clears both variables, so that another call
\* would close nothing.
C40_ClosedOnceAsStated ==
    [][(pc # "exited" /\ pc' = "exited") =>
         /\ \A h \in {tty.reader, tty.writer} \ {"none"} :
               CloseCalls(tty', h) = CloseCalls(tty, h) + 1
         /\ tty'.reader = "none"
         /\ tty'.writer = "none"
         /\ CloseTtyResources(tty').closes = tty'.closes
      ]_vars

=============================================================================
